---- MODULE Spec2Model ----
(***************************************************************************)
(* MCP toolkit server: the call-tool dispatcher, the input schemas, the    *)
(* tool handlers and the provider set, as a state machine.                 *)
(*                                                                         *)
(* One tool call is followed from the arrival of the request to the        *)
(* settlement of the call-tool handler's promise.  The handler suspends    *)
(* only at I/O boundaries: the fetch of a live provider and the outward    *)
(* client requests sampling/createMessage and elicitation/create.          *)
(***************************************************************************)
EXTENDS Integers, Sequences, FiniteSets, TLC

VARIABLES
    config,     \* the ServerConfig createServer was given
    providers,  \* the provider set bound by createProviders(config)
    pc,         \* position of the call-tool handler
    request,    \* request.params of the call being handled: name, arguments
    input,      \* the parsed input the handler was invoked with
    log,        \* what the call did so far, in order (parse, handler, provider, outward request)
    nestedReply, \* how the nested request of the handler ended: the upstream's or the client's answer
    result,     \* the Result the tool handler returned
    outcome,    \* how the call-tool handler's promise settled: a response or a thrown error
    served,     \* the request of another kind (list, resource, prompt) just answered, and its response
    calls,      \* the calls in flight at once: for each, the locals of its handler invocation
    direct      \* the calls made on the exported functions themselves, in order, with what they returned

vars == <<config, providers, pc, request, input, nestedReply, log, result, outcome, served, calls, direct>>

(***************************************************************************)
(* JSON values as they arrive on the wire, tagged with their runtime type. *)
(* Float(n) is the non-integer number n + 1/2.                             *)
(***************************************************************************)
Undefined == [t |-> "undefined"]
Null == [t |-> "null"]
Str(s) == [t |-> "string", v |-> s]
Num(n) == [t |-> "number", v |-> n]
Float(n) == [t |-> "float", v |-> n]
NaN == [t |-> "NaN"]
Bool(b) == [t |-> "boolean", v |-> b]
Arr(seq) == [t |-> "array", v |-> seq]
Obj(f) == [t |-> "object", v |-> f]

\* raw[key] of a JavaScript object: undefined for a missing key
Get(o, k) == IF k \in DOMAIN o.v THEN o.v[k] ELSE Undefined

None == [t |-> "none"]

(***************************************************************************)
(* Strings                                                                 *)
(***************************************************************************)
Digit(d) == SubSeq("0123456789", d + 1, d + 1)

RECURSIVE NatToStr(_)
NatToStr(n) == IF n < 10 THEN Digit(n) ELSE NatToStr(n \div 10) \o Digit(n % 10)

\* String(n) of an integer
IntToStr(n) == IF n < 0 THEN "-" \o NatToStr(0 - n) ELSE NatToStr(n)

\* haystack.includes(needle)
Includes(h, n) == \E i \in 1..(Len(h) - Len(n) + 1) : SubSeq(h, i, i + Len(n) - 1) = n

Upper == "ABCDEFGHIJKLMNOPQRSTUVWXYZ"

Lower == "abcdefghijklmnopqrstuvwxyz"

UpperLetters == {SubSeq(Upper, i, i) : i \in 1..26}

LowerLetters == {SubSeq(Lower, i, i) : i \in 1..26}

Digits == {Digit(d) : d \in 0..9}

LowerOf == [c \in UpperLetters |-> LET i == CHOOSE j \in 1..26 : SubSeq(Upper, j, j) = c
                                   IN  SubSeq(Lower, i, i)]

IsUpper(c) == c \in UpperLetters

IsLower(c) == c \in LowerLetters

IsDigit(c) == c \in Digits

LowerChar(c) == IF IsUpper(c) THEN LowerOf[c] ELSE c

\* the concatenation of pieces[lo..hi], halving the range
RECURSIVE Concat(_, _, _)
Concat(pieces, lo, hi) ==
    IF lo > hi THEN ""
    ELSE IF lo = hi THEN pieces[lo]
    ELSE LET mid == (lo + hi) \div 2
         IN  Concat(pieces, lo, mid) \o Concat(pieces, mid + 1, hi)

\* s.toLowerCase()
ToLowerCase(s) == Concat([i \in 1..Len(s) |-> LowerChar(SubSeq(s, i, i))], 1, Len(s))

\* the characters \s matches, among those the inputs use
IsSpace(c) == c \in {" ", "\n", "\t"}

RECURSIVE TrimStart(_)
TrimStart(s) == IF s # "" /\ IsSpace(SubSeq(s, 1, 1)) THEN TrimStart(SubSeq(s, 2, Len(s))) ELSE s

RECURSIVE TrimEnd(_)
TrimEnd(s) == IF s # "" /\ IsSpace(SubSeq(s, Len(s), Len(s))) THEN TrimEnd(SubSeq(s, 1, Len(s) - 1)) ELSE s

\* s.trim()
Trim(s) == TrimEnd(TrimStart(s))

\* s.split(/\s+/): a piece starts at the start of s and after each run of white space,
\* and runs up to the next white space; the first and the last piece may be empty
SplitSpaces(s) ==
    LET space(i) == i >= 1 /\ i <= Len(s) /\ IsSpace(SubSeq(s, i, i))
        starts == {i \in 1..(Len(s) + 1) : i = 1 \/ (space(i - 1) /\ ~space(i))}
        start(k) == CHOOSE i \in starts : Cardinality({j \in starts : j < i}) = k - 1
        stop(i) == CHOOSE j \in i..(Len(s) + 1) :
                      /\ j = Len(s) + 1 \/ space(j)
                      /\ \A m \in i..(j - 1) : ~space(m)
    IN  [k \in 1..Cardinality(starts) |-> SubSeq(s, start(k), stop(start(k)) - 1)]

\* words.join(sep)
RECURSIVE Join(_, _)
Join(words, sep) ==
    IF Len(words) = 0 THEN ""
    ELSE IF Len(words) = 1 THEN words[1]
    ELSE words[1] \o sep \o Join(Tail(words), sep)

\* words.slice(0, n)
Slice(seq, n) == SubSeq(seq, 1, IF n < Len(seq) THEN n ELSE Len(seq))

Min(a, b) == IF a < b THEN a ELSE b

Abs(a) == IF a < 0 THEN 0 - a ELSE a

\* a rational number num / den (the code's floating-point values, kept exact)
Ratio(num, den) == [num |-> num, den |-> den]

(***************************************************************************)
(* Result                                                                  *)
(***************************************************************************)
Ok(value) == [ok |-> TRUE, value |-> value]

Err(error) == [ok |-> FALSE, error |-> error]

(***************************************************************************)
(* Input schemas and their validation                                      *)
(***************************************************************************)
\* z.string().min(n)
ZString(n) == [kind |-> "string", min |-> n, hasDefault |-> FALSE]

\* z.number().int().positive().optional().default(d)
ZPositiveInt(d) == [kind |-> "number", positive |-> TRUE, min |-> 1, hasMax |-> FALSE, max |-> 0,
                    hasDefault |-> TRUE, default |-> Num(d)]

\* z.number().int().min(lo).max(hi).optional().default(d)
ZBoundedInt(lo, hi, d) == [kind |-> "number", positive |-> FALSE, min |-> lo, hasMax |-> TRUE, max |-> hi,
                           hasDefault |-> TRUE, default |-> Num(d)]

\* z.enum(values).optional().default(d)
ZEnum(values, d) == [kind |-> "enum", values |-> values, hasDefault |-> TRUE, default |-> Str(d)]

\* z.array(z.enum(values)).optional().default(d)
ZEnumArray(values, d) == [kind |-> "array", values |-> values, hasDefault |-> TRUE,
                          default |-> Arr([i \in 1..Len(d) |-> Str(d[i])])]

EntityTypes == {"person", "organization", "location", "date", "technology"}

SummarizeSchema == [text |-> ZString(1), maxLength |-> ZPositiveInt(100)]

SentimentSchema == [text |-> ZString(1)]

EntitySchema == [text |-> ZString(1),
                 types |-> ZEnumArray(EntityTypes, <<"person", "organization", "location">>)]

SearchSchema == [query |-> ZString(1), maxResults |-> ZBoundedInt(1, 20, 5)]

WeatherSchema == [location |-> ZString(1), unit |-> ZEnum({"celsius", "fahrenheit"}, "fahrenheit")]

SmartSummarizeSchema == [text |-> ZString(1), maxLength |-> ZPositiveInt(150)]

ConfigureAnalysisSchema == [text |-> ZString(1)]

\* the issue codes one field schema raises on one value (zod collects them all)
NumberIssues(s, val) ==
    IF val.t \notin {"number", "float"} THEN {"invalid_type"}
    ELSE (IF val.t = "float" THEN {"invalid_type"} ELSE {})
         \cup (IF s.positive
               THEN (IF (val.t = "number" /\ val.v <= 0) \/ (val.t = "float" /\ val.v < 0)
                     THEN {"too_small"} ELSE {})
               ELSE (IF val.v < s.min THEN {"too_small"} ELSE {}))
         \cup (IF s.hasMax /\ ((val.t = "number" /\ val.v > s.max) \/ (val.t = "float" /\ val.v >= s.max))
               THEN {"too_big"} ELSE {})

EnumIssues(values, val) ==
    IF val.t # "string" THEN {"invalid_type"}
    ELSE IF val.v \notin values THEN {"invalid_enum_value"}
    ELSE {}

FieldIssues(s, val) ==
    CASE s.kind = "string" ->
           IF val.t # "string" THEN {"invalid_type"}
           ELSE IF Len(val.v) < s.min THEN {"too_small"}
           ELSE {}
      [] s.kind = "number" -> NumberIssues(s, val)
      [] s.kind = "enum" -> EnumIssues(s.values, val)
      [] s.kind = "array" ->
           IF val.t # "array" THEN {"invalid_type"}
           ELSE UNION {EnumIssues(s.values, val.v[i]) : i \in 1..Len(val.v)}

\* the value a field parses to: the default replaces undefined
FieldValue(s, val) == IF val = Undefined /\ s.hasDefault THEN s.default ELSE val

\* the parsed value as the handler reads it
Untag(val) == IF val.t = "array" THEN [i \in 1..Len(val.v) |-> val.v[i].v] ELSE val.v

ZodError(issues) == [name |-> "ZodError", issues |-> issues]

\* SafeParse with the range checks of strings and numbers left out
SafeParseWithoutRanges(schema, args) ==
    IF args.t # "object"
    THEN [success |-> FALSE, error |-> ZodError({[path |-> "", code |-> "invalid_type"]})]
    ELSE LET issues == UNION {{[path |-> k, code |-> c] :
                                 c \in FieldIssues(schema[k], FieldValue(schema[k], Get(args, k)))
                                       \ {"too_small", "too_big"}} :
                              k \in DOMAIN schema}
         IN  IF issues # {}
             THEN [success |-> FALSE, error |-> ZodError(issues)]
             ELSE [success |-> TRUE,
                   data |-> [k \in DOMAIN schema |-> Untag(FieldValue(schema[k], Get(args, k)))]]

\* schema.safeParse(args): unknown keys are stripped, defaults are applied
SafeParse(schema, args) ==
    IF args.t # "object"
    THEN [success |-> FALSE, error |-> ZodError({[path |-> "", code |-> "invalid_type"]})]
    ELSE LET issues == UNION {{[path |-> k, code |-> c] :
                                 c \in FieldIssues(schema[k], FieldValue(schema[k], Get(args, k)))} :
                              k \in DOMAIN schema}
         IN  IF issues # {}
             THEN [success |-> FALSE, error |-> ZodError(issues)]
             ELSE [success |-> TRUE,
                   data |-> [k \in DOMAIN schema |-> Untag(FieldValue(schema[k], Get(args, k)))]]

(***************************************************************************)
(* JavaScript coercions                                                    *)
(***************************************************************************)
\* value == null (null or undefined): what ?? and ?. test
Nullish(val) == val.t \in {"null", "undefined"}

\* a ?? b
Coalesce(a, b) == IF Nullish(a) THEN b ELSE a

\* value.key of a value that is not nullish
Prop(val, k) == IF val.t = "object" THEN Get(val, k) ELSE Undefined

RECURSIVE DigitsToNat(_, _)
DigitsToNat(s, acc) ==
    IF s = "" THEN acc
    ELSE LET d == CHOOSE i \in 0..9 : Digit(i) = SubSeq(s, 1, 1)
         IN  DigitsToNat(SubSeq(s, 2, Len(s)), 10 * acc + d)

AllDigits(s) == \A i \in 1..Len(s) : IsDigit(SubSeq(s, i, i))

\* Number(value)
ToNumber(val) ==
    CASE val.t \in {"number", "float", "NaN"} -> val
      [] val.t = "boolean" -> Num(IF val.v THEN 1 ELSE 0)
      [] val.t = "null" -> Num(0)
      [] val.t = "string" -> IF AllDigits(Trim(val.v)) THEN Num(DigitsToNat(Trim(val.v), 0)) ELSE NaN
      [] OTHER -> NaN

\* Boolean(value)
ToBoolean(val) ==
    CASE val.t = "boolean" -> val.v
      [] val.t = "number" -> val.v # 0
      [] val.t = "string" -> val.v # ""
      [] val.t \in {"null", "undefined", "NaN"} -> FALSE
      [] OTHER -> TRUE

\* String(value), as a template literal interpolates it
ToStr(val) ==
    CASE val.t = "string" -> val.v
      [] val.t = "number" -> IntToStr(val.v)
      [] val.t = "float" -> IF val.v < 0 THEN "-" \o NatToStr(0 - val.v - 1) \o ".5"
                            ELSE NatToStr(val.v) \o ".5"
      [] val.t = "boolean" -> IF val.v THEN "true" ELSE "false"
      [] val.t = "NaN" -> "NaN"
      [] val.t = "null" -> "null"
      [] val.t = "undefined" -> "undefined"
      [] val.t = "array" -> "[array]"
      [] OTHER -> "[object Object]"

\* Math.round(value): n + 1/2 rounds up
MathRound(val) ==
    LET n == ToNumber(val)
    IN  IF n.t = "float" THEN Num(n.v + 1) ELSE n

\* an Error object and String(err)
Error(name, message) == [name |-> name, message |-> message]

ErrorToStr(err) == err.name \o ": " \o err.message

\* how a call of an async function ends: it returns a value or it throws
Return(value) == [threw |-> FALSE, value |-> value]

Throw(error) == [threw |-> TRUE, error |-> error]

(***************************************************************************)
(* Mock providers                                                          *)
(***************************************************************************)
\* MockTextProviderComplete that moves on to the next template with every call made
MockTextProviderCompleteRotating(prompt) ==
    LET words == SplitSpaces(ToLowerCase(prompt))
        topics == Join(Slice(words, 5), ", ")
        templates == <<"Based on the analysis of " \o topics, "Regarding " \o topics,
                       "The topic of " \o topics>>
    IN  Ok(templates[((Len(prompt) + Len(direct)) % 3) + 1])

MockTextProviderComplete(prompt) ==
    LET words == SplitSpaces(ToLowerCase(prompt))
        topics == Join(Slice(words, 5), ", ")
        templates == <<
            "Based on the analysis of " \o topics \o ", the key findings suggest a nuanced perspective. The evidence points to several interconnected factors that influence the outcome.",
            "Regarding " \o topics \o ": the current understanding indicates multiple contributing factors. Research suggests that a comprehensive approach yields the best results.",
            "The topic of " \o topics \o " involves several important considerations. A balanced assessment reveals both strengths and areas for further investigation.">>
        index == Len(prompt) % Len(templates)
    IN  Ok(templates[index + 1])

MockDomains == <<"docs.example.com", "blog.techsite.com", "research.papers.io", "tutorial.dev",
                 "wiki.knowledge.org">>

\* MockWebSearchProviderSearch without the cap at the number of domains
MockWebSearchProviderSearchUncapped(query, maxResults) ==
    LET words == SplitSpaces(ToLowerCase(query))
    IN  Ok([j \in 1..maxResults |->
              [title |-> Join(Slice(words, 3), " ") \o " - Result " \o IntToStr(j),
               url |-> "https://" \o MockDomains[((j - 1) % Len(MockDomains)) + 1] \o "/"
                       \o Join(words, "-"),
               snippet |-> "Comprehensive guide about " \o query
                           \o ". This resource covers the fundamentals and advanced topics related to "
                           \o Join(Slice(words, 2), " ") \o ".",
               score |-> Ratio(100 - (j - 1) * 15, 100)]])

MockWebSearchProviderSearch(query, maxResults) ==
    LET words == SplitSpaces(ToLowerCase(query))
        n == Min(maxResults, Len(MockDomains))
    IN  Ok([j \in 1..n |->
              [title |-> Join(Slice(words, 3), " ") \o " - Result " \o IntToStr(j),
               url |-> "https://" \o MockDomains[j] \o "/" \o Join(words, "-"),
               snippet |-> "Comprehensive guide about " \o query
                           \o ". This resource covers the fundamentals and advanced topics related to "
                           \o Join(Slice(words, 2), " ") \o ".",
               score |-> Ratio(100 - (j - 1) * 15, 100)]])

WeatherData(location, temperature, unit, condition, humidity, wind_speed, forecast) ==
    [location |-> location, temperature |-> temperature, unit |-> unit, condition |-> condition,
     humidity |-> humidity, wind_speed |-> wind_speed, forecast |-> forecast]

mockData ==
    [k \in {"san francisco", "new york", "london"} |->
       CASE k = "san francisco" ->
              WeatherData("San Francisco, CA", 62, "fahrenheit", "Partly Cloudy", 72, 12,
                          "Mild with coastal fog clearing by afternoon")
         [] k = "new york" ->
              WeatherData("New York, NY", 45, "fahrenheit", "Clear", 55, 8,
                          "Clear skies with seasonal temperatures")
         [] k = "london" ->
              WeatherData("London, UK", 8, "celsius", "Overcast", 85, 15,
                          "Grey skies with chance of light rain")]

\* the lower-case property names every object inherits from Object.prototype
InheritedKeys == {"constructor", "__proto__"}

\* this.mockData[key]: an own entry, an inherited property, or undefined
MockDataLookup(key) ==
    IF key \in DOMAIN mockData THEN [found |-> TRUE, own |-> TRUE, data |-> mockData[key]]
    ELSE IF key \in InheritedKeys THEN [found |-> TRUE, own |-> FALSE, data |-> [inherited |-> key]]
    ELSE [found |-> FALSE]

MockWeatherProviderGetWeather(location) ==
    LET key == Trim(ToLowerCase(location))
        hit == MockDataLookup(key)
    IN  IF hit.found THEN Ok(hit.data)
        ELSE Ok(WeatherData(location, 70, "fahrenheit", "Clear", 50, 10,
                            "Typical conditions for " \o location))

(***************************************************************************)
(* Live providers.  reply is what fetch and response.json() do: fetch      *)
(* throws, or answers with a status and a body that parses or does not.    *)
(***************************************************************************)
ResponseOk(reply) == reply.status >= 200 /\ reply.status <= 299

TypeError(message) == Error("TypeError", message)

\* rawResults.slice(0, maxResults).map(...): one search result per upstream entry
BraveResults(rawResults, maxResults) ==
    LET kept == Slice(rawResults.v, maxResults)
    IN  IF \E j \in 1..Len(kept) : Nullish(kept[j])
        THEN Throw(TypeError("Cannot read properties of null (reading 'title')"))
        ELSE Return(Ok([j \in 1..Len(kept) |->
                          [title |-> Prop(kept[j], "title"),
                           url |-> Prop(kept[j], "url"),
                           snippet |-> Coalesce(Prop(kept[j], "description"), Str("")),
                           score |-> Ratio(10 - (j - 1), 10)]]))

\* BraveWebSearchProviderSearch with one catch-all message for the three upstream faults
BraveWebSearchProviderSearchOneMessage(query, maxResults, reply) ==
    IF reply.kind = "throw" \/ ~ResponseOk(reply) \/ ~reply.body.parses
    THEN Return(Err("Brave Search request failed"))
    ELSE IF Nullish(reply.body.json)
    THEN Throw(TypeError("Cannot read properties of null (reading 'web')"))
    ELSE IF Nullish(Prop(reply.body.json, "web")) \/ Nullish(Prop(Prop(reply.body.json, "web"), "results"))
    THEN Return(Ok(<<>>))
    ELSE IF Prop(Prop(reply.body.json, "web"), "results").t = "array"
    THEN BraveResults(Prop(Prop(reply.body.json, "web"), "results"), maxResults)
    ELSE Throw(TypeError("rawResults.slice is not a function"))

BraveWebSearchProviderSearch(query, maxResults, reply) ==
    IF reply.kind = "throw"
    THEN Return(Err("Brave Search fetch failed: " \o ErrorToStr(reply.error)))
    ELSE IF ~ResponseOk(reply)
    THEN Return(Err("Brave Search API error: HTTP " \o IntToStr(reply.status)))
    ELSE IF ~reply.body.parses
    THEN Return(Err("Failed to parse Brave Search response"))
    ELSE LET data == reply.body.json
         IN  IF Nullish(data)
             THEN Throw(TypeError("Cannot read properties of null (reading 'web')"))
             ELSE LET web == Prop(data, "web")
                      rawResults == Coalesce(IF Nullish(web) THEN Undefined ELSE Prop(web, "results"),
                                             Arr(<<>>))
                  IN  IF rawResults.t = "array" THEN BraveResults(rawResults, maxResults)
                      ELSE IF rawResults.t = "string"
                      THEN Throw(TypeError("rawResults.slice(...).map is not a function"))
                      ELSE Throw(TypeError("rawResults.slice is not a function"))

OpenWeatherMapProviderGetWeather(location, reply) ==
    IF reply.kind = "throw"
    THEN Return(Err("OpenWeatherMap fetch failed: " \o ErrorToStr(reply.error)))
    ELSE IF ~ResponseOk(reply)
    THEN Return(Err("OpenWeatherMap API error: HTTP " \o IntToStr(reply.status)))
    ELSE IF ~reply.body.parses
    THEN Return(Err("Failed to parse OpenWeatherMap response"))
    ELSE LET data == reply.body.json
         IN  IF Nullish(data)
             THEN Throw(TypeError("Cannot read properties of null (reading 'sys')"))
             ELSE LET sys == Prop(data, "sys")
                      countryCode == IF Nullish(sys) THEN Undefined ELSE Prop(sys, "country")
                      locationName == IF ToBoolean(countryCode)
                                      THEN Str(ToStr(Prop(data, "name")) \o ", " \o ToStr(countryCode))
                                      ELSE Prop(data, "name")
                      main == Prop(data, "main")
                      weather == Prop(data, "weather")
                      wind == Prop(data, "wind")
                      first == IF weather.t = "array" /\ Len(weather.v) > 0 THEN weather.v[1]
                               ELSE Undefined
                  IN  IF Nullish(main)
                      THEN Throw(TypeError("Cannot read properties of undefined (reading 'temp')"))
                      ELSE IF Nullish(weather)
                      THEN Throw(TypeError("Cannot read properties of undefined (reading '0')"))
                      ELSE IF Nullish(wind)
                      THEN Throw(TypeError("Cannot read properties of undefined (reading 'speed')"))
                      ELSE Return(Ok(WeatherData(
                               locationName,
                               MathRound(Prop(main, "temp")),
                               "fahrenheit",
                               Coalesce(IF Nullish(first) THEN Undefined ELSE Prop(first, "description"),
                                        Str("Unknown")),
                               Prop(main, "humidity"),
                               MathRound(Prop(wind, "speed")),
                               "Current conditions for " \o ToStr(locationName))))

(***************************************************************************)
(* The provider set                                                        *)
(***************************************************************************)
\* a configured credential is a non-empty string; an unset one is undefined
Truthy(key) == key.t = "string" /\ key.v # ""

\* createProviders that binds the live providers in mode hybrid too
createProvidersHybridLive(cfg) ==
    IF cfg.mode \in {"production", "hybrid"}
    THEN [text |-> "MockTextProvider",
          search |-> IF Truthy(cfg.braveApiKey) THEN "BraveWebSearchProvider"
                     ELSE "MockWebSearchProvider",
          weather |-> IF Truthy(cfg.openWeatherMapApiKey) THEN "OpenWeatherMapProvider"
                      ELSE "MockWeatherProvider"]
    ELSE [text |-> "MockTextProvider",
          search |-> "MockWebSearchProvider",
          weather |-> "MockWeatherProvider"]

createProviders(cfg) ==
    IF cfg.mode = "production"
    THEN [text |-> "MockTextProvider",
          search |-> IF Truthy(cfg.braveApiKey) THEN "BraveWebSearchProvider"
                     ELSE "MockWebSearchProvider",
          weather |-> IF Truthy(cfg.openWeatherMapApiKey) THEN "OpenWeatherMapProvider"
                      ELSE "MockWeatherProvider"]
    ELSE [text |-> "MockTextProvider",
          search |-> "MockWebSearchProvider",
          weather |-> "MockWeatherProvider"]

(***************************************************************************)
(* Tool handlers                                                           *)
(***************************************************************************)
summarize(in, provider) ==
    LET prompt == "Summarize the following text in " \o IntToStr(in.maxLength)
                  \o " words or fewer:\n\n" \o in.text
    IN  MockTextProviderComplete(prompt)

positiveWords == <<"good", "great", "excellent", "amazing", "wonderful", "love", "best",
                   "happy", "fantastic", "brilliant", "outstanding", "perfect">>

negativeWords == <<"bad", "terrible", "awful", "worst", "hate", "horrible", "poor",
                   "disappointing", "failure", "broken", "useless", "wrong">>

\* the number of words that include one of the listed words
CountMatches(words, listed) ==
    Cardinality({j \in 1..Len(words) : \E k \in 1..Len(listed) : Includes(words[j], listed[k])})

\* analyzeSentiment without the caps on the confidence
analyzeSentimentUncapped(in, provider) ==
    LET words == SplitSpaces(ToLowerCase(in.text))
        positiveCount == CountMatches(words, positiveWords)
        negativeCount == CountMatches(words, negativeWords)
        total == positiveCount + negativeCount
    IN  IF total = 0
        THEN Ok([sentiment |-> "neutral", confidence |-> Ratio(6, 10),
                 explanation |-> "No strong sentiment indicators found in the text."])
        ELSE IF positiveCount > 0 /\ negativeCount > 0
        THEN Ok([sentiment |-> "mixed",
                 confidence |-> Ratio(total + Abs(positiveCount - negativeCount), total * 2),
                 explanation |-> "Found " \o IntToStr(positiveCount) \o " positive and "
                                 \o IntToStr(negativeCount) \o " negative indicators."])
        ELSE IF positiveCount > negativeCount
        THEN Ok([sentiment |-> "positive",
                 confidence |-> Ratio(60 + positiveCount * 10, 100),
                 explanation |-> "Strong positive sentiment with " \o IntToStr(positiveCount)
                                 \o " positive indicators."])
        ELSE Ok([sentiment |-> "negative",
                 confidence |-> Ratio(60 + negativeCount * 10, 100),
                 explanation |-> "Negative sentiment detected with " \o IntToStr(negativeCount)
                                 \o " negative indicators."])

analyzeSentiment(in, provider) ==
    LET words == SplitSpaces(ToLowerCase(in.text))
        positiveCount == CountMatches(words, positiveWords)
        negativeCount == CountMatches(words, negativeWords)
        total == positiveCount + negativeCount
        verdict ==
            IF total = 0
            THEN [sentiment |-> "neutral", confidence |-> Ratio(6, 10),
                  explanation |-> "No strong sentiment indicators found in the text."]
            ELSE IF positiveCount > 0 /\ negativeCount > 0
            THEN [sentiment |-> "mixed",
                  confidence |-> Ratio(total + Abs(positiveCount - negativeCount), total * 2),
                  explanation |-> "Found " \o IntToStr(positiveCount) \o " positive and "
                                  \o IntToStr(negativeCount) \o " negative indicators."]
            ELSE IF positiveCount > negativeCount
            THEN [sentiment |-> "positive",
                  confidence |-> Ratio(60 + Min(35, positiveCount * 10), 100),
                  explanation |-> "Strong positive sentiment with " \o IntToStr(positiveCount)
                                  \o " positive indicators."]
            ELSE [sentiment |-> "negative",
                  confidence |-> Ratio(60 + Min(35, negativeCount * 10), 100),
                  explanation |-> "Negative sentiment detected with " \o IntToStr(negativeCount)
                                  \o " negative indicators."]
        \* Math.min(confidence, 1.0)
        clamped == IF verdict.confidence.num > verdict.confidence.den THEN Ratio(1, 1)
                   ELSE verdict.confidence
    IN  Ok([sentiment |-> verdict.sentiment, confidence |-> clamped,
            explanation |-> verdict.explanation])

(***************************************************************************)
(* extract_entities: the recognition patterns, matched as the regular      *)
(* expression engine matches them (leftmost, then on from the match end)   *)
(***************************************************************************)
CharAt(s, i) == IF i >= 1 /\ i <= Len(s) THEN SubSeq(s, i, i) ELSE ""

IsWordChar(c) == IsUpper(c) \/ IsLower(c) \/ IsDigit(c) \/ c = "_"

\* \b before position i
BoundaryAt(s, i) == IsWordChar(CharAt(s, i - 1)) # IsWordChar(CharAt(s, i))

\* the first position from i on that holds no lower-case letter / no white space
RECURSIVE LowerRunEnd(_, _)
LowerRunEnd(s, i) == IF IsLower(CharAt(s, i)) THEN LowerRunEnd(s, i + 1) ELSE i

RECURSIVE SpaceRunEnd(_, _)
SpaceRunEnd(s, i) == IF IsSpace(CharAt(s, i)) THEN SpaceRunEnd(s, i + 1) ELSE i

DigitsAt(s, i, n) == \A j \in i..(i + n - 1) : IsDigit(CharAt(s, j))

\* the end (exclusive) of the match of \b(?:w1|w2|...)\b, ignoring case, at i; 0 if none
WordListMatchEnd(listed, s, i) ==
    LET ends == {i + Len(listed[k]) : k \in {k \in 1..Len(listed) :
                    /\ BoundaryAt(s, i)
                    /\ i + Len(listed[k]) - 1 <= Len(s)
                    /\ BoundaryAt(s, i + Len(listed[k]))
                    /\ ToLowerCase(SubSeq(s, i, i + Len(listed[k]) - 1)) = ToLowerCase(listed[k])}}
    IN  IF ends = {} THEN 0 ELSE CHOOSE e \in ends : \A f \in ends : e <= f

\* /\b[A-Z][a-z]+ [A-Z][a-z]+\b/: a capitalised word from i whose lower-case run ends at
\* stop, 0 unless the run is not empty
CapitalisedEnd(s, i, stop) == IF IsUpper(CharAt(s, i)) /\ stop > i + 1 THEN stop ELSE 0

CapitalisedWordEnd(s, i) == CapitalisedEnd(s, i, LowerRunEnd(s, i + 1))

SecondWordEnd(s, first) ==
    IF first # 0 /\ CharAt(s, first) = " " THEN CapitalisedWordEnd(s, first + 1) ELSE 0

PersonEnd(s, i, q) == IF q # 0 /\ BoundaryAt(s, i) /\ BoundaryAt(s, q) THEN q ELSE 0

PersonMatchEnd(s, i) == PersonEnd(s, i, SecondWordEnd(s, CapitalisedWordEnd(s, i)))

Organizations == <<"Google", "Microsoft", "Apple", "Amazon", "Meta", "OpenAI", "Anthropic",
                   "Netflix", "Tesla">>

Locations == <<"New York", "San Francisco", "London", "Tokyo", "Paris", "Berlin", "Seattle",
               "Austin", "Chicago">>

Technologies == <<"Python", "TypeScript", "JavaScript", "React", "Docker", "Kubernetes", "GraphQL",
                  "REST", "PostgreSQL", "MongoDB", "Redis", "LangChain", "ChromaDB">>

Months == <<"January", "February", "March", "April", "May", "June", "July", "August",
            "September", "October", "November", "December">>

\* /\b\d{4}[-/]\d{2}[-/]\d{2}\b/
NumericDateMatchEnd(s, i) ==
    IF /\ BoundaryAt(s, i)
       /\ DigitsAt(s, i, 4)
       /\ CharAt(s, i + 4) \in {"-", "/"}
       /\ DigitsAt(s, i + 5, 2)
       /\ CharAt(s, i + 7) \in {"-", "/"}
       /\ DigitsAt(s, i + 8, 2)
       /\ BoundaryAt(s, i + 10)
    THEN i + 10 ELSE 0

\* /\b(?:January|...|December)\s+\d{1,2},?\s+\d{4}\b/i, piece by piece: each operator
\* matches the rest of the pattern from a position and gives the end of the match, 0 if none
YearMatchEnd(s, from, year) ==
    IF year > from /\ DigitsAt(s, year, 4) /\ BoundaryAt(s, year + 4) THEN year + 4 ELSE 0

AfterCommaMatchEnd(s, from) == YearMatchEnd(s, from, SpaceRunEnd(s, from))

AfterDayMatchEnd(s, from) == AfterCommaMatchEnd(s, IF CharAt(s, from) = "," THEN from + 1 ELSE from)

DayMatchEnd(s, from, day) ==
    IF day > from /\ IsDigit(CharAt(s, day))
    THEN AfterDayMatchEnd(s, IF IsDigit(CharAt(s, day + 1)) THEN day + 2 ELSE day + 1)
    ELSE 0

AfterMonthMatchEnd(s, from) == DayMatchEnd(s, from, SpaceRunEnd(s, from))

WrittenDateMatchEnd(s, i) ==
    LET named == {k \in 1..Len(Months) :
                    /\ BoundaryAt(s, i)
                    /\ i + Len(Months[k]) - 1 <= Len(s)
                    /\ ToLowerCase(SubSeq(s, i, i + Len(Months[k]) - 1)) = ToLowerCase(Months[k])}
    IN  IF named = {} THEN 0
        ELSE AfterMonthMatchEnd(s, i + Len(Months[CHOOSE k \in named : TRUE]))

\* the alternation: the written date is tried where the numeric date does not match
FirstMatchEnd(numeric, s, i) == IF numeric # 0 THEN numeric ELSE WrittenDateMatchEnd(s, i)

\* patterns[type], matched at position i: the end of the match (exclusive), 0 if none
PatternMatchEnd(type, s, i) ==
    CASE type = "person" -> PersonMatchEnd(s, i)
      [] type = "organization" -> WordListMatchEnd(Organizations, s, i)
      [] type = "location" -> WordListMatchEnd(Locations, s, i)
      [] type = "technology" -> WordListMatchEnd(Technologies, s, i)
      [] type = "date" -> FirstMatchEnd(NumericDateMatchEnd(s, i), s, i)

\* text.matchAll(pattern), from position i: the leftmost match, then on from its end
RECURSIVE MatchAll(_, _, _)
LeftmostMatch(type, s, j, e) == <<SubSeq(s, j, e - 1)>> \o MatchAll(type, s, e)

Leftmost(starts) == CHOOSE j \in starts : \A k \in starts : j <= k

MatchFrom(type, s, j) == LeftmostMatch(type, s, j, PatternMatchEnd(type, s, j))

MatchAll(type, s, i) ==
    LET starts == {j \in i..Len(s) : PatternMatchEnd(type, s, j) # 0}
    IN  IF starts = {} THEN <<>> ELSE MatchFrom(type, s, Leftmost(starts))

\* the matches of one type, each kept unless its lower-cased text was seen before
RECURSIVE Unseen(_, _)
Unseen(matches, seen) ==
    IF Len(matches) = 0 THEN <<>>
    ELSE IF ToLowerCase(Head(matches)) \in seen THEN Unseen(Tail(matches), seen)
    ELSE <<Head(matches)>> \o Unseen(Tail(matches), seen \cup {ToLowerCase(Head(matches))})

\* one pass of the loop over input.types: a fresh seen set for each entry of the list
EntitiesOfType(type, text) ==
    LET kept == Unseen(MatchAll(type, text, 1), {})
    IN  [j \in 1..Len(kept) |-> [text |-> kept[j], type |-> type, confidence |-> Ratio(85, 100)]]

RECURSIVE EntitiesOfTypes(_, _)
EntitiesOfTypes(types, text) ==
    IF Len(types) = 0 THEN <<>>
    ELSE EntitiesOfType(Head(types), text) \o EntitiesOfTypes(Tail(types), text)

extractEntities(in, provider) == Ok(EntitiesOfTypes(in.types, in.text))

\* the delegating handlers: reply is the upstream's answer, read by a live provider only
webSearch(in, provider, reply) ==
    IF provider = "BraveWebSearchProvider"
    THEN BraveWebSearchProviderSearch(in.query, in.maxResults, reply)
    ELSE Return(MockWebSearchProviderSearch(in.query, in.maxResults))

\* getWeather that reports the data in the requested unit
getWeatherConverting(in, provider, reply) ==
    LET done == IF provider = "OpenWeatherMapProvider"
                THEN OpenWeatherMapProviderGetWeather(in.location, reply)
                ELSE Return(MockWeatherProviderGetWeather(in.location))
    IN  IF ~done.threw /\ done.value.ok /\ "unit" \in DOMAIN done.value.value
        THEN Return(Ok([done.value.value EXCEPT !.unit = in.unit]))
        ELSE done

getWeather(in, provider, reply) ==
    IF provider = "OpenWeatherMapProvider"
    THEN OpenWeatherMapProviderGetWeather(in.location, reply)
    ELSE Return(MockWeatherProviderGetWeather(in.location))

(***************************************************************************)
(* Bidirectional handlers.  reply is how the outward client request ends:  *)
(* it throws, or it returns the client's result.                           *)
(***************************************************************************)
CreateMessageRequest(in) ==
    [text |-> "Please summarize the following text in approximately " \o IntToStr(in.maxLength)
              \o " words or fewer. Be concise and capture the key points:\n\n" \o in.text,
     maxTokens |-> in.maxLength * 4,
     systemPrompt |-> "You are a helpful assistant that creates concise, accurate summaries."]

\* smartSummarize that hides the fault of the sampling request behind a fixed message
smartSummarizeOpaque(in, reply) ==
    IF reply.kind = "throw"
    THEN Err("Sampling request failed")
    ELSE IF reply.content.type = "text"
    THEN Ok(reply.content.text)
    ELSE Err("Client returned non-text sampling response")

\* smartSummarize that tidies the client's text before it returns it
smartSummarizeTrimmed(in, reply) ==
    IF reply.kind = "throw"
    THEN Err("Sampling request failed: " \o ErrorToStr(reply.error))
    ELSE IF reply.content.type = "text"
    THEN Ok(Trim(reply.content.text))
    ELSE Err("Client returned non-text sampling response")

smartSummarize(in, reply) ==
    IF reply.kind = "throw"
    THEN Err("Sampling request failed: " \o ErrorToStr(reply.error))
    ELSE IF reply.content.type = "text"
    THEN Ok(reply.content.text)
    ELSE Err("Client returned non-text sampling response")

ElicitInputRequest(in) ==
    [message |-> "Configure analysis options for the provided text (" \o IntToStr(Len(in.text))
                 \o " characters):",
     requestedSchema |-> {"depth", "includeSentiment", "includeEntities", "maxSummaryWords"}]

\* the catch branch, had it propagated the fault as the other handlers do
ElicitationUnsupportedFails == Err("Elicitation request failed: client does not support elicitation")

\* the catch branch: the client does not support elicitation
ElicitationUnsupported ==
    Ok([action |-> "accept",
        config |-> [depth |-> Str("standard"), includeSentiment |-> TRUE, includeEntities |-> TRUE,
                    maxSummaryWords |-> Num(100)],
        message |-> "Using default configuration (elicitation not supported by client)."])

\* a || b
OrElse(a, b) == IF ToBoolean(a) THEN a ELSE b

\* ParseSubmitted with || where the code has ??
ParseSubmittedFalsy(raw) ==
    [depth |-> OrElse(Prop(raw, "depth"), Str("standard")),
     includeSentiment |-> ToBoolean(OrElse(Prop(raw, "includeSentiment"), Bool(TRUE))),
     includeEntities |-> ToBoolean(OrElse(Prop(raw, "includeEntities"), Bool(TRUE))),
     maxSummaryWords |-> ToNumber(OrElse(Prop(raw, "maxSummaryWords"), Num(100)))]

\* the configuration read from the submitted form data
ParseSubmitted(raw) ==
    [depth |-> Coalesce(Prop(raw, "depth"), Str("standard")),
     includeSentiment |-> ToBoolean(Coalesce(Prop(raw, "includeSentiment"), Bool(TRUE))),
     includeEntities |-> ToBoolean(Coalesce(Prop(raw, "includeEntities"), Bool(TRUE))),
     maxSummaryWords |-> ToNumber(Coalesce(Prop(raw, "maxSummaryWords"), Num(100)))]

Accepted(raw) ==
    LET cfg == ParseSubmitted(raw)
    IN  Ok([action |-> "accept",
            config |-> cfg,
            message |-> "Analysis configured: depth=" \o ToStr(cfg.depth)
                        \o ", sentiment=" \o ToStr(Bool(cfg.includeSentiment))
                        \o ", entities=" \o ToStr(Bool(cfg.includeEntities))
                        \o ", maxWords=" \o ToStr(cfg.maxSummaryWords)])

\* Declined, had it filled in the default configuration
DeclinedWithDefaults ==
    Ok([action |-> "decline",
        config |-> [depth |-> Str("standard"), includeSentiment |-> TRUE, includeEntities |-> TRUE,
                    maxSummaryWords |-> Num(100)],
        message |-> "User declined to configure analysis. Using default settings would be required to proceed."])

Declined ==
    Ok([action |-> "decline",
        message |-> "User declined to configure analysis. Using default settings would be required to proceed."])

\* Cancelled, had it reported the cancellation as a failure
CancelledAsFailure == Err("User cancelled the analysis configuration dialog.")

Cancelled ==
    Ok([action |-> "cancel",
        message |-> "User cancelled the analysis configuration dialog."])

configureAnalysis(in, reply) ==
    IF reply.kind = "throw" THEN ElicitationUnsupported
    ELSE IF reply.action = "accept" /\ ~Nullish(reply.content) THEN Accepted(reply.content)
    ELSE IF reply.action = "decline" THEN Declined
    ELSE Cancelled

(***************************************************************************)
(* The call-tool dispatcher                                                *)
(***************************************************************************)
\* the case labels of the switch on the tool name
ToolNames == {"summarize", "analyze_sentiment", "extract_entities", "brave_web_search",
              "get_weather", "smart_summarize", "configure_analysis"}

SchemaOf(name) ==
    CASE name = "summarize" -> SummarizeSchema
      [] name = "analyze_sentiment" -> SentimentSchema
      [] name = "extract_entities" -> EntitySchema
      [] name = "brave_web_search" -> SearchSchema
      [] name = "get_weather" -> WeatherSchema
      [] name = "smart_summarize" -> SmartSummarizeSchema
      [] name = "configure_analysis" -> ConfigureAnalysisSchema

TextContent(text) == <<[type |-> "text", text |-> text]>>

\* JSON.stringify(value, null, 2): the serialisation of value, kept symbolic
JSONStringify(value) == [json |-> value]

\* UnknownTool without the error flag
UnknownToolUnflagged(name) == [content |-> TextContent("Unknown tool: " \o name)]

UnknownTool(name) == [content |-> TextContent("Unknown tool: " \o name), isError |-> TRUE]

\* ErrorResponse with a fixed text in place of the handler's message
ErrorResponseGeneric(error) == [content |-> TextContent("Error: tool execution failed"), isError |-> TRUE]

ErrorResponse(error) == [content |-> TextContent("Error: " \o error), isError |-> TRUE]

\* SuccessResponse that returns the text content alone
SuccessResponseTextOnly(name, value) ==
    IF name \in {"summarize", "smart_summarize"} THEN [content |-> TextContent(value)]
    ELSE [content |-> TextContent(JSONStringify(value))]

SuccessResponse(name, value) ==
    CASE name = "summarize" ->
           [content |-> TextContent(value), structuredContent |-> [summary |-> value]]
      [] name = "analyze_sentiment" ->
           [content |-> TextContent(JSONStringify(value)), structuredContent |-> value]
      [] name = "extract_entities" ->
           [content |-> TextContent(JSONStringify(value)), structuredContent |-> [entities |-> value]]
      [] name = "smart_summarize" ->
           [content |-> TextContent(value)]
      [] name \in {"brave_web_search", "get_weather", "configure_analysis"} ->
           [content |-> TextContent(JSONStringify(value))]

\* the wrapping of the handler's Result into the response
ToolResponse(name, res) ==
    IF ~res.ok THEN ErrorResponse(res.error) ELSE SuccessResponse(name, res.value)

\* how the call-tool handler's promise settles
Responded(response) == [kind |-> "response", response |-> response]

Rejected(error) == [kind |-> "throw", error |-> error]

\* await handler(...), then the wrapping; nothing catches what the handler throws
Settlement(name, completion) ==
    IF completion.threw THEN Rejected(completion.error)
    ELSE Responded(ToolResponse(name, completion.value))

IsError(response) == "isError" \in DOMAIN response /\ response.isError

(***************************************************************************)
(* The inputs: configurations, requests and the answers of the upstream    *)
(* services and of the client                                              *)
(***************************************************************************)
\* the largest number of entries in an upstream search answer
MaxUpstream == 3

\* the largest number of positive, and of negative, words in a text for analyze_sentiment
MaxMatches == 5

\* an object with the entries of fields that are not undefined
ObjectOf(fields) == Obj([k \in {k \in DOMAIN fields : fields[k] # Undefined} |-> fields[k]])

Keys == {Undefined, Str(""), Str("key")}

Configs ==
    [mode : {"mock", "production", "hybrid"}, name : {"mcp-toolkit-server"}, version : {"0.1.0"},
     braveApiKey : Keys, openWeatherMapApiKey : Keys, maxConcurrentTools : {5}, toolTimeoutMs : {30000}]

Texts == {Undefined, Str(""), Num(7),
          Str("I love this great product"),
          Str("Tim Cook met Google in Paris. paris was bad on 2024-01-15")}

Lengths == {Undefined, Null, Num(20), Num(0), Num(-3), Float(2), Str("20")}

RECURSIVE Words(_, _)
\* word, n times, each followed by a space
Words(n, word) == IF n = 0 THEN "" ELSE word \o " " \o Words(n - 1, word)

\* texts with every number of positive and of negative words up to MaxMatches
CountedTexts == {Str(Words(p, "Good") \o Words(n, "awful")) : p \in 0..MaxMatches, n \in 0..MaxMatches}

RawArguments(name) ==
    CASE name \in {"summarize", "smart_summarize"} ->
           {ObjectOf([text |-> text, maxLength |-> maxLength]) : text \in Texts, maxLength \in Lengths}
      [] name = "analyze_sentiment" ->
           {ObjectOf([text |-> text]) : text \in Texts \cup CountedTexts}
      [] name = "configure_analysis" ->
           {ObjectOf([text |-> text]) : text \in Texts}
      [] name = "extract_entities" ->
           {ObjectOf([text |-> text, types |-> types]) :
              text \in Texts,
              types \in {Undefined, Str("person"), Arr(<<>>),
                         Arr(<<Str("organization"), Str("location"), Str("date")>>),
                         Arr(<<Str("location"), Str("location")>>),
                         Arr(<<Str("person"), Str("food")>>)}}
      [] name = "brave_web_search" ->
           {ObjectOf([query |-> query, maxResults |-> maxResults]) :
              query \in {Undefined, Str(""), Num(7), Str("MCP protocol"), Str(" Rust  async ")},
              maxResults \in {Undefined, Null, Num(1), Num(3), Num(20), Num(0), Num(21), Float(2), Str("3")}}
      [] name = "get_weather" ->
           {ObjectOf([location |-> location, unit |-> unit]) :
              location \in {Undefined, Str(""), Num(7), Str("San Francisco"), Str(" LONDON "),
                            Str("Atlantis"), Str("Constructor")},
              unit \in {Undefined, Str("celsius"), Str("fahrenheit"), Str("kelvin"), Num(1)}}
      [] OTHER -> {ObjectOf([text |-> text]) : text \in {Undefined, Str("I love this great product")}}

\* request.params: a name, in the catalog or not, and raw arguments, an object or not
Requests ==
    UNION {{[name |-> name, arguments |-> args] :
              args \in RawArguments(name) \cup {Undefined, Str("text")}} :
           name \in ToolNames \cup {"nonexistent_tool", "web_search"}}

\* what fetch and response.json() do
FetchThrows == [kind |-> "throw", error |-> TypeError("fetch failed")]

FetchAnswers(status, body) == [kind |-> "response", status |-> status, body |-> body]

Unparsable == [parses |-> FALSE]

Parsed(json) == [parses |-> TRUE, json |-> json]

FailedFetches == {FetchThrows} \cup {FetchAnswers(status, Unparsable) : status \in {199, 300, 401, 500}}
                 \cup {FetchAnswers(status, Unparsable) : status \in {200, 299}}

UpstreamResult(j) ==
    IF j = 2 THEN Obj([title |-> Str("Title 2"), url |-> Str("https://example.com/2")])
    ELSE Obj([title |-> Str("Title " \o IntToStr(j)), url |-> Str("https://example.com/" \o IntToStr(j)),
              description |-> Str("Description " \o IntToStr(j))])

BraveBodies ==
    {Null, Str("ok"), ObjectOf([web |-> Undefined]), ObjectOf([web |-> Null]),
     ObjectOf([web |-> ObjectOf([results |-> Undefined])]),
     ObjectOf([web |-> ObjectOf([results |-> Str("none")])]),
     ObjectOf([web |-> ObjectOf([results |-> Arr(<<UpstreamResult(1), Null>>)])])}
    \cup {ObjectOf([web |-> ObjectOf([results |-> Arr([j \in 1..n |-> UpstreamResult(j)])])]) :
            n \in 0..MaxUpstream}

OpenWeatherMapBodies ==
    {Null}
    \cup {ObjectOf([name |-> Str("London"), sys |-> sys, main |-> main, weather |-> weather, wind |-> wind]) :
            sys \in {Undefined, ObjectOf([country |-> Str("GB")]), ObjectOf([country |-> Str("")])},
            main \in {Undefined, ObjectOf([temp |-> Float(47), humidity |-> Num(80)])},
            weather \in {Undefined, Arr(<<>>), Arr(<<ObjectOf([description |-> Str("light rain")])>>)},
            wind \in {Undefined, ObjectOf([speed |-> Num(9)])}}

FetchReplies(name) ==
    FailedFetches
    \cup {FetchAnswers(200, Parsed(json)) :
            json \in IF name = "brave_web_search" THEN BraveBodies ELSE OpenWeatherMapBodies}

\* how server.createMessage ends
CreateMessageReplies ==
    {[kind |-> "throw", error |-> Error("McpError", "MCP error -32601: Method not found")],
     [kind |-> "throw", error |-> Error("Error", "Client does not support sampling")],
     [kind |-> "result", content |-> [type |-> "text", text |-> "AI builds safe systems."]],
     [kind |-> "result", content |-> [type |-> "text", text |-> " Error: none \n"]],
     [kind |-> "result", content |-> [type |-> "text", text |-> ""]],
     [kind |-> "result", content |-> [type |-> "image", data |-> "aGk=", mimeType |-> "image/png"]],
     [kind |-> "result", content |-> [type |-> "audio", data |-> "aGk=", mimeType |-> "audio/wav"]]}

\* the form data a client submits: each entry absent or of a type the protocol allows
SubmittedForms ==
    {ObjectOf([depth |-> depth, includeSentiment |-> includeSentiment,
               includeEntities |-> includeEntities, maxSummaryWords |-> maxSummaryWords]) :
       depth \in {Undefined, Str("quick"), Str("deep")},
       includeSentiment \in {Undefined, Bool(TRUE), Bool(FALSE), Str("")},
       includeEntities \in {Undefined, Bool(FALSE), Num(1)},
       maxSummaryWords \in {Undefined, Num(200), Num(0), Str("50"), Str("many"), Float(2)}}

\* how server.elicitInput ends
ElicitInputReplies ==
    {[kind |-> "throw", error |-> Error("Error", "Client does not support elicitation")]}
    \cup {[kind |-> "result", action |-> action, content |-> content] :
            action \in {"accept", "decline", "cancel"},
            content \in {Undefined, Null, ObjectOf([depth |-> Str("deep"), includeSentiment |-> Bool(FALSE)])}}
    \cup {[kind |-> "result", action |-> "accept", content |-> content] : content \in SubmittedForms}

(***************************************************************************)
(* The server                                                              *)
(***************************************************************************)
\* the output schemas the tool definitions declare
SENTIMENT_OUTPUT_SCHEMA ==
    [type |-> "object",
     properties |-> [sentiment |-> [type |-> "string",
                                    enum |-> {"positive", "negative", "neutral", "mixed"}],
                     confidence |-> [type |-> "number"],
                     explanation |-> [type |-> "string"]],
     required |-> {"sentiment", "confidence", "explanation"}]

ENTITIES_OUTPUT_SCHEMA ==
    [type |-> "object",
     properties |-> [entities |-> [type |-> "array",
                                   items |-> [type |-> "object",
                                              properties |-> [text |-> [type |-> "string"],
                                                              type |-> [type |-> "string"],
                                                              confidence |-> [type |-> "number"]],
                                              required |-> {"text", "type", "confidence"}]]],
     required |-> {"entities"}]

SUMMARIZE_OUTPUT_SCHEMA ==
    [type |-> "object",
     properties |-> [summary |-> [type |-> "string"]],
     required |-> {"summary"}]

\* outputSchema of the tool definitions that have one
OutputSchemas ==
    [name \in {"summarize", "analyze_sentiment", "extract_entities"} |->
       CASE name = "summarize" -> SUMMARIZE_OUTPUT_SCHEMA
         [] name = "analyze_sentiment" -> SENTIMENT_OUTPUT_SCHEMA
         [] name = "extract_entities" -> ENTITIES_OUTPUT_SCHEMA]

\* ListedTools with the search tool under the name web_search
ListedToolsWithSearch == <<"summarize", "analyze_sentiment", "extract_entities", "web_search",
                           "get_weather", "smart_summarize", "configure_analysis">>

\* the names tools/list advertises, in order
ListedTools == <<"summarize", "analyze_sentiment", "extract_entities", "brave_web_search",
                 "get_weather", "smart_summarize", "configure_analysis">>

\* the case of the switch for name, run with the parsed input; reply is the answer to
\* the one nested request of a handler that makes one
Handle(name, in, reply) ==
    CASE name = "summarize" -> Return(summarize(in, providers.text))
      [] name = "analyze_sentiment" -> Return(analyzeSentiment(in, providers.text))
      [] name = "extract_entities" -> Return(extractEntities(in, providers.text))
      [] name = "brave_web_search" -> webSearch(in, providers.search, reply)
      [] name = "get_weather" -> getWeather(in, providers.weather, reply)
      [] name = "smart_summarize" -> Return(smartSummarize(in, reply))
      [] name = "configure_analysis" -> Return(configureAnalysis(in, reply))

\* where the handler for name suspends, "" if it runs to its end
AwaitOf(name) ==
    CASE name = "smart_summarize" -> "createMessage"
      [] name = "configure_analysis" -> "elicitInput"
      [] name = "brave_web_search" /\ providers.search = "BraveWebSearchProvider" -> "fetch"
      [] name = "get_weather" /\ providers.weather = "OpenWeatherMapProvider" -> "fetch"
      [] OTHER -> ""

Event(ev, what) == [ev |-> ev, what |-> what]

\* the provider calls and nested requests the handler for name issues before it suspends
Issued(name, in) ==
    CASE name = "summarize" -> <<Event("provider", providers.text)>>
      [] name = "brave_web_search" ->
           <<Event("provider", providers.search)>>
           \o (IF providers.search = "BraveWebSearchProvider"
               THEN <<Event("fetch", "api.search.brave.com")>> ELSE <<>>)
      [] name = "get_weather" ->
           <<Event("provider", providers.weather)>>
           \o (IF providers.weather = "OpenWeatherMapProvider"
               THEN <<Event("fetch", "api.openweathermap.org")>> ELSE <<>>)
      [] name = "smart_summarize" ->
           <<[ev |-> "outward", what |-> "sampling/createMessage", params |-> CreateMessageRequest(in)]>>
      [] name = "configure_analysis" ->
           <<[ev |-> "outward", what |-> "elicitation/create", params |-> ElicitInputRequest(in)]>>
      [] OTHER -> <<>>

(***************************************************************************)
(* Resources and prompts                                                   *)
(***************************************************************************)
getResourceDefinitions ==
    <<[uri |-> "toolkit://config", name |-> "Server Configuration",
       description |-> "Current server configuration and mode", mimeType |-> "application/json"],
      [uri |-> "toolkit://tools", name |-> "Available Tools",
       description |-> "List of all available tools with their schemas", mimeType |-> "application/json"],
      [uri |-> "toolkit://health", name |-> "Health Status",
       description |-> "Server health and readiness status", mimeType |-> "application/json"]>>

\* now is what process.uptime() and new Date().toISOString() return
readResource(uri, cfg, now) ==
    CASE uri = "toolkit://config" ->
           JSONStringify([mode |-> cfg.mode, name |-> cfg.name, version |-> cfg.version,
                          maxConcurrentTools |-> cfg.maxConcurrentTools,
                          toolTimeoutMs |-> cfg.toolTimeoutMs])
      [] uri = "toolkit://tools" ->
           JSONStringify(
             [tools |->
                <<[name |-> "summarize", description |-> "Summarize text to a specified length",
                   category |-> "text-analysis"],
                  [name |-> "analyze_sentiment", description |-> "Analyze sentiment of text",
                   category |-> "text-analysis"],
                  [name |-> "extract_entities", description |-> "Extract named entities from text",
                   category |-> "text-analysis"],
                  [name |-> "web_search", description |-> "Search the web for information",
                   category |-> "web"],
                  [name |-> "get_weather", description |-> "Get current weather for a location",
                   category |-> "weather"]>>,
              count |-> 5])
      [] uri = "toolkit://health" ->
           JSONStringify([status |-> "healthy", mode |-> cfg.mode, uptime |-> now.uptime,
                          timestamp |-> now.timestamp])
      [] OTHER -> JSONStringify([error |-> "Unknown resource: " \o uri])

PromptArgument(name, description, required) ==
    [name |-> name, description |-> description, required |-> required]

getPromptDefinitions ==
    <<[name |-> "research_topic",
       description |-> "Research a topic by searching the web, summarizing findings, and extracting key entities",
       arguments |-> <<PromptArgument("topic", "The topic to research", TRUE),
                       PromptArgument("depth", "Research depth: quick, standard, or deep", FALSE)>>],
      [name |-> "analyze_text",
       description |-> "Analyze text for sentiment, entities, and provide a summary",
       arguments |-> <<PromptArgument("text", "The text to analyze", TRUE)>>],
      [name |-> "weather_briefing",
       description |-> "Get a weather briefing with recommendations for a location",
       arguments |-> <<PromptArgument("location", "City or location name", TRUE)>>]>>

\* args[key] ?? fallback, for prompt arguments, which are strings
ArgOr(args, key, fallback) == IF key \in DOMAIN args THEN args[key] ELSE fallback

generatePromptMessages(name, args) ==
    CASE name = "research_topic" ->
           <<[role |-> "user",
              content |-> "I'd like to research \"" \o ArgOr(args, "topic", "general topic")
                          \o "\" at a " \o ArgOr(args, "depth", "standard")
                          \o " level. Please:\n\n1. Search for the most relevant and recent information\n2. Summarize the key findings\n3. Extract important entities (people, organizations, technologies)\n4. Provide a structured overview with sources\n\nUse the web_search, summarize, and extract_entities tools to gather and process the information."]>>
      [] name = "analyze_text" ->
           <<[role |-> "user",
              content |-> "Please analyze the following text comprehensively:\n\n\""
                          \o ArgOr(args, "text", "")
                          \o "\"\n\nPerform:\n1. Sentiment analysis (using analyze_sentiment tool)\n2. Entity extraction (using extract_entities tool)\n3. Brief summary (using summarize tool)\n\nProvide a structured analysis report."]>>
      [] name = "weather_briefing" ->
           <<[role |-> "user",
              content |-> "Get the current weather for " \o ArgOr(args, "location", "current location")
                          \o " and provide:\n\n1. Current conditions (temperature, humidity, wind)\n2. Brief forecast\n3. Activity recommendations based on the weather\n\nUse the get_weather tool to fetch the data."]>>
      [] OTHER ->
           <<[role |-> "user",
              content |-> "Unknown prompt: " \o name
                          \o ". Available prompts: research_topic, analyze_text, weather_briefing."]>>

\* the requests of the other kinds a client sends
Uris == {"toolkit://config", "toolkit://tools", "toolkit://health", "toolkit://nowhere"}

Clock == {[uptime |-> 1, timestamp |-> "2025-01-01T00:00:01.000Z"],
          [uptime |-> 90, timestamp |-> "2025-01-01T00:01:30.000Z"]}

PromptRequests ==
    {[name |-> "research_topic", arguments |-> [topic |-> "MCP"]],
     [name |-> "research_topic", arguments |-> [topic |-> "MCP", depth |-> "deep"]],
     [name |-> "research_topic", arguments |-> <<>>],
     [name |-> "analyze_text", arguments |-> [text |-> "I love this great product"]],
     [name |-> "weather_briefing", arguments |-> [location |-> "London"]],
     [name |-> "weather_briefing", arguments |-> <<>>],
     [name |-> "unknown_prompt", arguments |-> <<>>]}

Served(method, params, response) == [method |-> method, params |-> params, response |-> response]

(***************************************************************************)
(* Calls in flight at once.  The call-tool handler is an async function:   *)
(* every invocation has its own locals (name, args, input), and the        *)
(* invocations interleave only where one awaits.  All of them read the     *)
(* one provider set.                                                       *)
(***************************************************************************)
MaxCalls == 2

CallIds == 1..MaxCalls

\* an invocation that has not begun; overlap is the set of calls that waited at a
\* suspension point while this one ran
IdleFrame == [pc |-> "idle", request |-> None, input |-> None, nestedReply |-> None,
              outcome |-> None, overlap |-> {}]

Suspended(frame) == frame.pc \in {"fetch", "createMessage", "elicitInput"}

Init ==
    /\ served = None
    /\ calls = [id \in CallIds |-> IdleFrame]
    /\ direct = <<>>
    /\ config \in Configs
    /\ providers = createProviders(config)
    /\ pc = "idle"
    /\ request = None
    /\ input = None
    /\ nestedReply = None
    /\ log = <<>>
    /\ result = None
    /\ outcome = None

\* the handler ran to its end with this completion
Settle(name, completion) ==
    /\ pc' = "settled"
    /\ result' = IF completion.threw THEN None ELSE completion.value
    /\ outcome' = Settlement(name, completion)

\* a tools/call request arrives: the switch on the name, the parse of the arguments, and
\* the handler up to its first suspension
CallTool(req) ==
    /\ pc = "idle"
    /\ request' = req
    /\ nestedReply' = None
    /\ UNCHANGED <<config, providers, served, calls, direct>>
    /\ IF req.name \notin ToolNames
       THEN /\ pc' = "settled"
            /\ input' = None
            /\ log' = <<>>
            /\ result' = None
            /\ outcome' = Responded(UnknownTool(req.name))
       ELSE LET parsed == SafeParse(SchemaOf(req.name), req.arguments)
            IN  IF ~parsed.success
                THEN /\ pc' = "settled"
                     /\ input' = None
                     /\ log' = <<Event("rejected", req.name)>>
                     /\ result' = None
                     /\ outcome' = Rejected(parsed.error)
                ELSE /\ input' = parsed.data
                     /\ log' = <<Event("parsed", req.name), Event("handler", req.name)>>
                               \o Issued(req.name, parsed.data)
                     /\ IF AwaitOf(req.name) = ""
                        THEN Settle(req.name, Handle(req.name, parsed.data, None))
                        ELSE /\ pc' = AwaitOf(req.name)
                             /\ result' = None
                             /\ outcome' = None

\* Resume that issues the nested request once more after a fault
ResumeRetrying(at, answer) ==
    /\ pc = at
    /\ nestedReply' = answer
    /\ IF answer.kind = "throw" /\ Len(log) < 4
       THEN /\ log' = Append(log, log[Len(log)])
            /\ UNCHANGED <<pc, result, outcome>>
       ELSE /\ Settle(request.name, Handle(request.name, input, answer))
            /\ UNCHANGED log
    /\ UNCHANGED <<config, providers, request, input, served, calls, direct>>

\* the nested request the handler waits for ends, and the handler runs to its end
Resume(at, answer) ==
    /\ pc = at
    /\ nestedReply' = answer
    /\ Settle(request.name, Handle(request.name, input, answer))
    /\ UNCHANGED <<config, providers, request, input, log, served, calls, direct>>

FetchSettles == pc = "fetch" /\ \E answer \in FetchReplies(request.name) : Resume("fetch", answer)

CreateMessageSettles ==
    pc = "createMessage" /\ \E answer \in CreateMessageReplies : Resume("createMessage", answer)

ElicitInputSettles ==
    pc = "elicitInput" /\ \E answer \in ElicitInputReplies : Resume("elicitInput", answer)

\* Serve that builds the provider set anew, in mock mode, for the request
ServeRebinding(method, params, response) ==
    /\ pc' = "served"
    /\ served' = Served(method, params, response)
    /\ providers' = createProviders([config EXCEPT !.mode = "mock"])
    /\ UNCHANGED <<config, request, input, nestedReply, log, result, outcome, calls, direct>>

\* a request of another kind is answered in one step; no handler of these reads or writes
\* the provider set
Serve(method, params, response) ==
    /\ pc' = "served"
    /\ served' = Served(method, params, response)
    /\ UNCHANGED <<config, providers, request, input, nestedReply, log, result, outcome, calls, direct>>

\* an entry of the tools/list response: the name and, where declared, the output schema
ToolDefinition(name) ==
    IF name \in DOMAIN OutputSchemas THEN [name |-> name, outputSchema |-> OutputSchemas[name]]
    ELSE [name |-> name]

ListTools ==
    pc = "idle" /\
    Serve("tools/list", None, [tools |-> [j \in 1..Len(ListedTools) |-> ToolDefinition(ListedTools[j])]])

ListResources == pc = "idle" /\ Serve("resources/list", None, [resources |-> getResourceDefinitions])

ReadResource(uri, now) ==
    pc = "idle" /\
    Serve("resources/read", [uri |-> uri],
          [contents |-> <<[uri |-> uri, mimeType |-> "application/json",
                           text |-> readResource(uri, config, now)]>>])

ListPrompts == pc = "idle" /\ Serve("prompts/list", None, [prompts |-> getPromptDefinitions])

GetPrompt(req) ==
    LET messages == generatePromptMessages(req.name, req.arguments)
    IN  pc = "idle" /\
        Serve("prompts/get", req,
              [messages |-> [j \in 1..Len(messages) |->
                               [role |-> messages[j].role,
                                content |-> [type |-> "text", text |-> messages[j].content]]]])

\* the settlement is sent to the client, and the server waits for its next request
Deliver ==
    /\ pc \in {"settled", "served"}
    /\ pc' = "idle"
    /\ served' = None
    /\ request' = None
    /\ input' = None
    /\ nestedReply' = None
    /\ log' = <<>>
    /\ result' = None
    /\ outcome' = None
    /\ UNCHANGED <<config, providers, calls, direct>>

Next ==
    \/ \E req \in Requests : CallTool(req)
    \/ FetchSettles
    \/ CreateMessageSettles
    \/ ElicitInputSettles
    \/ ListTools
    \/ ListResources
    \/ \E uri \in Uris, now \in Clock : ReadResource(uri, now)
    \/ ListPrompts
    \/ \E req \in PromptRequests : GetPrompt(req)
    \/ Deliver

Spec == Init /\ [][Next]_vars

(***************************************************************************)
(* Several calls in flight at once                                         *)
(***************************************************************************)
\* the configurations, requests and replies of the interleaved runs: mock mode, and
\* production with both keys, where the search and the weather handler suspend at a fetch
ConcurrentConfigs ==
    {c \in Configs : \/ c.mode = "mock" /\ c.braveApiKey = Undefined /\ c.openWeatherMapApiKey = Undefined
                     \/ c.mode = "production" /\ c.braveApiKey = Str("key")
                          /\ c.openWeatherMapApiKey = Str("key")}

ConcurrentRequests ==
    {[name |-> "brave_web_search",
      arguments |-> ObjectOf([query |-> Str("MCP protocol"), maxResults |-> maxResults])] :
        maxResults \in {Num(1), Num(3)}}
    \cup {[name |-> "smart_summarize", arguments |-> ObjectOf([text |-> text, maxLength |-> Undefined])] :
            text \in {Str("I love this great product"), Str("Good awful ")}}
    \cup {[name |-> "get_weather", arguments |-> ObjectOf([location |-> Str("Atlantis"), unit |-> Undefined])],
          [name |-> "configure_analysis", arguments |-> ObjectOf([text |-> Str("I love this great product")])],
          [name |-> "summarize", arguments |-> ObjectOf([text |-> Undefined, maxLength |-> Undefined])],
          [name |-> "nonexistent_tool", arguments |-> Undefined]}

\* how the nested request a suspended invocation waits for can end
RepliesTo(frame) ==
    CASE frame.pc = "fetch" /\ frame.request.name = "brave_web_search" ->
           {FetchThrows,
            FetchAnswers(200, Parsed(ObjectOf([web |-> ObjectOf(
                [results |-> Arr([j \in 1..MaxUpstream |-> UpstreamResult(j)])])])))}
      [] frame.pc = "fetch" /\ frame.request.name = "get_weather" ->
           {FetchThrows,
            FetchAnswers(200, Parsed(ObjectOf([name |-> Str("London"), sys |-> Undefined,
                main |-> ObjectOf([temp |-> Float(47), humidity |-> Num(80)]),
                weather |-> Arr(<<ObjectOf([description |-> Str("light rain")])>>),
                wind |-> ObjectOf([speed |-> Num(9)])]))),
            FetchAnswers(200, Parsed(ObjectOf([name |-> Str("London"), sys |-> Undefined,
                main |-> Undefined, weather |-> Undefined, wind |-> Undefined])))}
      [] frame.pc = "createMessage" ->
           {[kind |-> "throw", error |-> Error("Error", "Client does not support sampling")],
            [kind |-> "result", content |-> [type |-> "text", text |-> "AI builds safe systems."]]}
      [] frame.pc = "elicitInput" ->
           {[kind |-> "result", action |-> "decline", content |-> Undefined],
            [kind |-> "result", action |-> "accept",
             content |-> ObjectOf([depth |-> Str("deep"), includeSentiment |-> Bool(FALSE)])]}

ConcurrentInit == Init /\ config \in ConcurrentConfigs

\* the invocation for req with its arguments parsed, up to its first suspension
BegunParsed(req, parsed, others) ==
    IF ~parsed.success
    THEN [pc |-> "settled", request |-> req, input |-> None, nestedReply |-> None,
          outcome |-> Rejected(parsed.error), overlap |-> others]
    ELSE IF AwaitOf(req.name) = ""
    THEN [pc |-> "settled", request |-> req, input |-> parsed.data, nestedReply |-> None,
          outcome |-> Settlement(req.name, Handle(req.name, parsed.data, None)), overlap |-> others]
    ELSE [pc |-> AwaitOf(req.name), request |-> req, input |-> parsed.data, nestedReply |-> None,
          outcome |-> None, overlap |-> others]

\* the invocation for req, up to its first suspension; others are the calls suspended meanwhile
Begun(req, others) ==
    IF req.name \notin ToolNames
    THEN [pc |-> "settled", request |-> req, input |-> None, nestedReply |-> None,
          outcome |-> Responded(UnknownTool(req.name)), overlap |-> others]
    ELSE BegunParsed(req, SafeParse(SchemaOf(req.name), req.arguments), others)

\* InputOf for a handler that keeps the parsed input in one slot per tool, outside the
\* invocation: it holds the input of another call of that tool that is in flight
InputOfShared(id) ==
    IF \E j \in CallIds \ {id} : Suspended(calls[j]) /\ calls[j].request.name = calls[id].request.name
    THEN calls[CHOOSE j \in CallIds \ {id} :
                 Suspended(calls[j]) /\ calls[j].request.name = calls[id].request.name].input
    ELSE calls[id].input

\* the parsed input an invocation holds: a local of that invocation
InputOf(id) == calls[id].input

\* a tools/call request arrives while other calls may be suspended
Begin(id, req) ==
    /\ calls[id].pc = "idle"
    /\ calls' = [calls EXCEPT ![id] = Begun(req, {j \in CallIds \ {id} : Suspended(calls[j])})]
    /\ UNCHANGED <<config, providers, pc, request, input, nestedReply, log, result, outcome, served, direct>>

\* the nested request of one suspended invocation ends, and that invocation runs to its end
Complete(id) ==
    /\ Suspended(calls[id])
    /\ \E answer \in RepliesTo(calls[id]) :
         calls' = [calls EXCEPT
                     ![id].pc = "settled",
                     ![id].nestedReply = answer,
                     ![id].outcome = Settlement(calls[id].request.name,
                                                Handle(calls[id].request.name, InputOf(id), answer)),
                     ![id].overlap = @ \cup {j \in CallIds \ {id} : Suspended(calls[j])}]
    /\ UNCHANGED <<config, providers, pc, request, input, nestedReply, log, result, outcome, served, direct>>

\* the settlement of one invocation is sent to the client
Send(id) ==
    /\ calls[id].pc = "settled"
    /\ calls' = [calls EXCEPT ![id] = IdleFrame]
    /\ UNCHANGED <<config, providers, pc, request, input, nestedReply, log, result, outcome, served, direct>>

ConcurrentNext ==
    \/ \E id \in CallIds, req \in ConcurrentRequests : Begin(id, req)
    \/ \E id \in CallIds : Complete(id)
    \/ \E id \in CallIds : Send(id)

ConcurrentSpec == ConcurrentInit /\ [][ConcurrentNext]_vars

(***************************************************************************)
(* The exported functions called on their own, as a caller of the library  *)
(* calls them: the mock text provider and the Result helpers.              *)
(***************************************************************************)
MaxDirect == 3

\* fn(value) for the functions handed to mapResult
Apply(fn, value) ==
    CASE fn = "toLowerCase" -> ToLowerCase(value)
      [] fn = "trim" -> Trim(value)

unwrapOr(res, defaultValue) == IF res.ok THEN res.value ELSE defaultValue

\* mapResult that maps the error of a failure as well
mapResultEager(res, fn) ==
    IF res.ok THEN Ok(Apply(fn, res.value)) ELSE Err(Apply(fn, res.error))

mapResult(res, fn) == IF res.ok THEN Ok(Apply(fn, res.value)) ELSE res

\* the calls of fn that mapResult makes
mapResultApplies(res, fn) == IF res.ok THEN <<res.value>> ELSE <<>>

Prompts == {"Summarize the following text in 100 words or fewer:\n\nGood day",
            "What is MCP", "Hello  World again"}

CompletionOptions == {Undefined, [maxTokens |-> 40, temperature |-> 1, model |-> "m"]}

DirectResults == {Ok(value) : value \in {"Hello ", " Fail", ""}} \cup {Err(error) : error \in {" Fail", "something FAILED"}}

DirectInit == Init /\ config.mode = "mock" /\ config.braveApiKey = Undefined
                   /\ config.openWeatherMapApiKey = Undefined

\* provider.complete(prompt, options) on the mock text provider
CompleteText(prompt, options) ==
    /\ Len(direct) < MaxDirect
    /\ direct' = Append(direct, [fn |-> "complete", prompt |-> prompt, options |-> options,
                                 completed |-> MockTextProviderComplete(prompt)])
    /\ UNCHANGED <<config, providers, pc, request, input, nestedReply, log, result, outcome, served, calls>>

UnwrapOr(res, defaultValue) ==
    /\ Len(direct) < MaxDirect
    /\ direct' = Append(direct, [fn |-> "unwrapOr", res |-> res, defaultValue |-> defaultValue,
                                 unwrapped |-> unwrapOr(res, defaultValue)])
    /\ UNCHANGED <<config, providers, pc, request, input, nestedReply, log, result, outcome, served, calls>>

MapResult(res, fn) ==
    /\ Len(direct) < MaxDirect
    /\ direct' = Append(direct, [fn |-> "mapResult", res |-> res, mapper |-> fn,
                                 applies |-> mapResultApplies(res, fn),
                                 mapped |-> mapResult(res, fn)])
    /\ UNCHANGED <<config, providers, pc, request, input, nestedReply, log, result, outcome, served, calls>>

\* the caller drops what it recorded
Forget ==
    /\ direct # <<>>
    /\ direct' = <<>>
    /\ UNCHANGED <<config, providers, pc, request, input, nestedReply, log, result, outcome, served, calls>>

DirectNext ==
    \/ \E prompt \in Prompts, options \in CompletionOptions : CompleteText(prompt, options)
    \/ \E res \in DirectResults, defaultValue \in {"none"} : UnwrapOr(res, defaultValue)
    \/ \E res \in DirectResults, fn \in {"toLowerCase", "trim"} : MapResult(res, fn)
    \/ Forget

DirectSpec == DirectInit /\ [][DirectNext]_vars


(***************************************************************************)
(* Properties                                                              *)
(***************************************************************************)
Catalog == {ListedTools[j] : j \in 1..Len(ListedTools)}

\* the raw arguments satisfy every constraint of the schema of name
ArgumentsValid(name, args) ==
    /\ args.t = "object"
    /\ \A k \in DOMAIN SchemaOf(name) :
          FieldIssues(SchemaOf(name)[k], FieldValue(SchemaOf(name)[k], Get(args, k))) = {}

\* the call reached a handler, a provider or a nested request
HandlerReached == \E j \in 1..Len(log) : log[j].ev \in {"handler", "provider", "fetch", "outward"}

Waiting == pc \in {"fetch", "createMessage", "elicitInput"}

\* the call-tool handler settled with a response
Answered == pc = "settled" /\ outcome.kind = "response"

ResponseText == outcome.response.content[1].text

\* the handler for name was resumed by the answer to its nested request
Resumed(name) == pc = "settled" /\ request.name = name /\ input # None /\ nestedReply # None

DefaultConfig == [depth |-> Str("standard"), includeSentiment |-> TRUE, includeEntities |-> TRUE,
                  maxSummaryWords |-> Num(100)]

\* C1: a call of a name that is not in the catalog, whatever its arguments, settles at once
\* with a response flagged as an error whose text names the unknown tool; nothing is
\* thrown, nothing is parsed and no handler, provider or nested request is reached.
C1_UnknownToolAnswered ==
    (request # None /\ request.name \notin Catalog) =>
        /\ Answered
        /\ IsError(outcome.response)
        /\ ResponseText = "Unknown tool: " \o request.name
        /\ log = <<>>
        /\ input = None
        /\ result = None

C1_Witness ==
    /\ Answered
    /\ request.name = "web_search"
    /\ request.arguments = Undefined
    /\ IsError(outcome.response)

\* C2 (as claimed): a call of a catalog operation whose raw arguments violate its schema
\* settles with a response flagged as an error.
C2_InvalidArgumentsAnswered ==
    (pc = "settled" /\ request.name \in Catalog
       /\ ~ArgumentsValid(request.name, request.arguments)) =>
        /\ outcome.kind = "response"
        /\ IsError(outcome.response)

\* C3: a handler, a provider or a nested request is reached only by a call of a catalog
\* operation whose raw arguments satisfy its schema, and only after the parse; a call with
\* an unknown name or invalid arguments settles without reaching any of them.
C3_ValidationBeforeHandler ==
    /\ HandlerReached =>
          /\ request.name \in ToolNames
          /\ ArgumentsValid(request.name, request.arguments)
          /\ log[1] = Event("parsed", request.name)
          /\ log[2] = Event("handler", request.name)
          /\ \A j \in 3..Len(log) : log[j].ev \in {"provider", "fetch", "outward"}
    /\ (request # None /\ ~(request.name \in ToolNames
                            /\ ArgumentsValid(request.name, request.arguments))) =>
          /\ ~HandlerReached
          /\ ~Waiting
          /\ input = None
          /\ nestedReply = None
          /\ result = None

C3_Witness ==
    /\ pc = "fetch"
    /\ request.name = "get_weather"
    /\ log = <<Event("parsed", "get_weather"), Event("handler", "get_weather"),
               Event("provider", "OpenWeatherMapProvider"), Event("fetch", "api.openweathermap.org")>>

\* C4 (as claimed): when the handler of a call throws, the call settles with a response
\* flagged as an error.
C4_HandlerExceptionAnswered ==
    (pc = "settled" /\ input # None /\ Handle(request.name, input, nestedReply).threw) =>
        /\ outcome.kind = "response"
        /\ IsError(outcome.response)

\* C5: for a call with valid arguments whose handler returned a Result, the call settles
\* with a response; the response is flagged as an error exactly if the Result is a failure,
\* and then its text contains the handler's error message unchanged.
C5_ErrorFlagIffFailure ==
    (pc = "settled" /\ input # None /\ result # None) =>
        /\ outcome.kind = "response"
        /\ IsError(outcome.response) <=> ~result.ok
        /\ result.ok => "isError" \notin DOMAIN outcome.response
        /\ ~result.ok => Includes(ResponseText, result.error)

C5_Witness ==
    /\ Answered
    /\ request.name = "brave_web_search"
    /\ result = Err("Brave Search API error: HTTP 401")
    /\ IsError(outcome.response)
    /\ ResponseText = "Error: Brave Search API error: HTTP 401"

\* C6: configure_analysis returns a success Result however the elicitation request ends
\* (it throws, or the client accepts with or without a payload, declines or cancels), and
\* the call settles with a response.
C6_ConfigureAnalysisSucceeds ==
    Resumed("configure_analysis") =>
        /\ result # None
        /\ result.ok
        /\ outcome.kind = "response"

C6_Witness ==
    /\ Resumed("configure_analysis")
    /\ nestedReply.kind = "result"
    /\ nestedReply.action = "cancel"
    /\ result.ok

\* C7: when the elicitation request throws, configure_analysis succeeds with action accept,
\* the default configuration and a message containing "default", and the response is not
\* flagged as an error.
C7_DefaultsWhenUnsupported ==
    (Resumed("configure_analysis") /\ nestedReply.kind = "throw") =>
        /\ result # None
        /\ result.ok
        /\ result.value.action = "accept"
        /\ result.value.config = DefaultConfig
        /\ Includes(result.value.message, "default")
        /\ outcome.kind = "response"
        /\ ~IsError(outcome.response)

C7_Witness ==
    /\ Resumed("configure_analysis")
    /\ nestedReply.kind = "throw"
    /\ result.ok
    /\ result.value.config.maxSummaryWords = Num(100)

\* C8: when the client declines or cancels, configure_analysis succeeds with that action,
\* no configuration and a non-empty message, and the response is not flagged as an error.
C8_DeclineAndCancel ==
    (Resumed("configure_analysis") /\ nestedReply.kind = "result"
       /\ nestedReply.action \in {"decline", "cancel"}) =>
        /\ result # None
        /\ result.ok
        /\ result.value.action = nestedReply.action
        /\ "config" \notin DOMAIN result.value
        /\ result.value.message # ""
        /\ outcome.kind = "response"
        /\ ~IsError(outcome.response)

C8_Witness ==
    /\ Resumed("configure_analysis")
    /\ nestedReply.kind = "result"
    /\ nestedReply.action = "decline"
    /\ ~Nullish(nestedReply.content)
    /\ result.ok
    /\ result.value.action = "decline"

\* the entry of the submitted form for key, coerced as its field is, or the default
SubmittedOrDefault(form, key, coerced, default) == IF key \in DOMAIN form.v THEN coerced ELSE default

\* C9: when the client accepts with a payload, configure_analysis succeeds with action
\* accept and a configuration whose every field is the coerced entry of the payload where
\* the payload has the entry, and the default where it has not; false stays false.
C9_AcceptedConfiguration ==
    (Resumed("configure_analysis") /\ nestedReply.kind = "result"
       /\ nestedReply.action = "accept" /\ nestedReply.content.t = "object") =>
        LET form == nestedReply.content
        IN  /\ result # None
            /\ result.ok
            /\ result.value.action = "accept"
            /\ result.value.config.depth =
                  SubmittedOrDefault(form, "depth", Get(form, "depth"), Str("standard"))
            /\ result.value.config.includeSentiment =
                  SubmittedOrDefault(form, "includeSentiment", ToBoolean(Get(form, "includeSentiment")), TRUE)
            /\ result.value.config.includeEntities =
                  SubmittedOrDefault(form, "includeEntities", ToBoolean(Get(form, "includeEntities")), TRUE)
            /\ result.value.config.maxSummaryWords =
                  SubmittedOrDefault(form, "maxSummaryWords", ToNumber(Get(form, "maxSummaryWords")), Num(100))
            /\ Get(form, "includeSentiment") = Bool(FALSE) => ~result.value.config.includeSentiment
            /\ Get(form, "includeEntities") = Bool(FALSE) => ~result.value.config.includeEntities

C9_Witness ==
    /\ Resumed("configure_analysis")
    /\ nestedReply.kind = "result"
    /\ nestedReply.action = "accept"
    /\ nestedReply.content = ObjectOf([includeSentiment |-> Bool(FALSE), maxSummaryWords |-> Str("50")])
    /\ result.value.config = [depth |-> Str("standard"), includeSentiment |-> FALSE,
                              includeEntities |-> TRUE, maxSummaryWords |-> Num(50)]

\* C10: when the generate-text request returns a text payload, smart_summarize succeeds
\* with exactly that text; when it returns a payload of another type, smart_summarize fails
\* with a message that flags the non-text content.
C10_SmartSummarizeContent ==
    (Resumed("smart_summarize") /\ nestedReply.kind = "result") =>
        /\ result # None
        /\ nestedReply.content.type = "text" => result = Ok(nestedReply.content.text)
        /\ nestedReply.content.type # "text" =>
              /\ ~result.ok
              /\ Includes(result.error, "non-text")

C10_Witness ==
    /\ Resumed("smart_summarize")
    /\ nestedReply.kind = "result"
    /\ nestedReply.content.type = "image"
    /\ result = Err("Client returned non-text sampling response")

\* C11: when the generate-text request of smart_summarize throws, smart_summarize returns
\* a failure Result whose message contains the text of the fault, nothing is thrown out
\* of the call, and the response is flagged as an error and carries that message.
C11_SamplingFaultReported ==
    (Resumed("smart_summarize") /\ nestedReply.kind = "throw") =>
        /\ result # None
        /\ ~result.ok
        /\ Includes(result.error, nestedReply.error.message)
        /\ outcome.kind = "response"
        /\ IsError(outcome.response)
        /\ Includes(ResponseText, nestedReply.error.message)

C11_Witness ==
    /\ Resumed("smart_summarize")
    /\ nestedReply.kind = "throw"
    /\ nestedReply.error.message = "Client does not support sampling"
    /\ result = Err("Sampling request failed: Error: Client does not support sampling")
    /\ IsError(outcome.response)

\* the outward client requests the call issued so far
OutwardRequests == SelectSeq(log, LAMBDA e : e.ev = "outward")

\* C12: from the start of its handler to the settlement of the call, whatever the answer,
\* a smart_summarize call has issued exactly one sampling/createMessage request and a
\* configure_analysis call exactly one elicitation/create request; the other operations
\* issue no outward request.
C12_SingleOutwardRequest ==
    (request # None /\ input # None) =>
        CASE request.name = "smart_summarize" ->
               /\ Len(OutwardRequests) = 1
               /\ OutwardRequests[1].what = "sampling/createMessage"
          [] request.name = "configure_analysis" ->
               /\ Len(OutwardRequests) = 1
               /\ OutwardRequests[1].what = "elicitation/create"
          [] OTHER -> OutwardRequests = <<>>

C12_Witness ==
    /\ Resumed("smart_summarize")
    /\ nestedReply.kind = "throw"
    /\ Len(OutwardRequests) = 1
    /\ ~result.ok

C16_ProvidersNeverChange ==
    /\ [](providers = createProviders(config))
    /\ [][providers' = providers /\ config' = config]_vars

C16_Witness ==
    /\ pc = "served"
    /\ served.method = "resources/read"
    /\ providers.weather = "OpenWeatherMapProvider"
    /\ providers.search = "BraveWebSearchProvider"

\* a number of the model: a ratio of integers
IsNumber(value) == DOMAIN value = {"num", "den"} /\ value.num \in Int /\ value.den \in Int \ {0}

RECURSIVE Conforms(_, _)
\* value has the type, the enum membership and the required fields the JSON schema declares
Conforms(schema, value) ==
    CASE schema.type = "string" ->
           /\ value \in STRING
           /\ "enum" \in DOMAIN schema => value \in schema.enum
      [] schema.type = "number" -> IsNumber(value)
      [] schema.type = "array" ->
           /\ DOMAIN value = 1..Len(value)
           /\ \A j \in 1..Len(value) : Conforms(schema.items, value[j])
      [] schema.type = "object" ->
           /\ schema.required \subseteq DOMAIN value
           /\ \A k \in DOMAIN schema.properties \cap DOMAIN value :
                 Conforms(schema.properties[k], value[k])

\* C13: a successful response of an operation that declares an output schema carries a
\* structured payload that has every required field of the schema with the declared type
\* and enum membership; a response of an operation without output schema carries none.
C13_StructuredContentConforms ==
    (Answered /\ request.name \in ToolNames) =>
        IF request.name \in DOMAIN OutputSchemas /\ ~IsError(outcome.response)
        THEN /\ "structuredContent" \in DOMAIN outcome.response
             /\ Conforms(OutputSchemas[request.name], outcome.response.structuredContent)
        ELSE "structuredContent" \notin DOMAIN outcome.response

C13_Witness ==
    /\ Answered
    /\ request.name = "extract_entities"
    /\ ~IsError(outcome.response)
    /\ Len(outcome.response.structuredContent.entities) = 3
    /\ outcome.response.structuredContent.entities[1] =
          [text |-> "Google", type |-> "organization", confidence |-> Ratio(85, 100)]

\* a / b >= c / d, for ratios with positive denominators
AtLeast(a, b) == a.num * b.den >= b.num * a.den

\* a call of name with valid arguments settled, its handler having returned a Result
Returned(name) == pc = "settled" /\ request.name = name /\ input # None /\ result # None

\* C18: with the mock search provider, a search with maxResults = N returns a success
\* Result with exactly min(N, 5) results whose scores do not increase with the index.
C18_MockSearchCount ==
    (Returned("brave_web_search") /\ providers.search = "MockWebSearchProvider") =>
        /\ result.ok
        /\ Len(result.value) = Min(input.maxResults, 5)
        /\ \A j \in 1..(Len(result.value) - 1) :
              AtLeast(result.value[j].score, result.value[j + 1].score)

C18_Witness ==
    /\ Returned("brave_web_search")
    /\ providers.search = "MockWebSearchProvider"
    /\ input.maxResults = 20
    /\ Len(result.value) = 5
    /\ result.value[5].score = Ratio(40, 100)

\* C19 (as claimed): with the mock weather provider, a location whose lower-cased, trimmed
\* form is a key of the table gets that key's record, and every other location gets a
\* success Result whose location field is the requested string.
C19_MockWeatherLookup ==
    (Returned("get_weather") /\ providers.weather = "MockWeatherProvider") =>
        LET key == Trim(ToLowerCase(input.location))
        IN  /\ result.ok
            /\ IF key \in DOMAIN mockData
               THEN result.value = mockData[key]
               ELSE /\ "location" \in DOMAIN result.value
                    /\ result.value.location = input.location

\* C20: for every text, with every number of positive and of negative matches,
\* analyze_sentiment returns a success Result whose confidence is at least 0 and at most 1.
C20_ConfidenceInUnitInterval ==
    Returned("analyze_sentiment") =>
        /\ result.ok
        /\ result.value.confidence.den > 0
        /\ AtLeast(result.value.confidence, Ratio(0, 1))
        /\ AtLeast(Ratio(1, 1), result.value.confidence)

C20_Witness ==
    /\ Returned("analyze_sentiment")
    /\ request.arguments = ObjectOf([text |-> Str(Words(5, "Good"))])
    /\ result.value.sentiment = "positive"
    /\ result.value.confidence = Ratio(95, 100)

\* C17 (as claimed): every tool call is answered with exactly one response, which is either a
\* value or an error-flagged item with a message: a call that has settled has settled with a
\* response and not with an exception that left the handler.
C17_EveryCallAnswered ==
    pc = "settled" =>
        /\ outcome.kind = "response"
        /\ Len(outcome.response.content) = 1
        /\ IsError(outcome.response) => ResponseText # ""

\* the response of the call req run alone, its nested request answered by reply
Alone(req, reply) ==
    IF req.name \notin ToolNames THEN Responded(UnknownTool(req.name))
    ELSE IF ~SafeParse(SchemaOf(req.name), req.arguments).success
    THEN Rejected(SafeParse(SchemaOf(req.name), req.arguments).error)
    ELSE Settlement(req.name, Handle(req.name, SafeParse(SchemaOf(req.name), req.arguments).data, reply))

\* C15: however the calls in flight interleave at their suspension points, every settled
\* call has the settlement the same request gives when run alone with the same reply to its
\* nested request, and a step of one call leaves the locals of every other call as they were.
C15_CallsIndependent ==
    /\ [](\A id \in CallIds :
            calls[id].pc = "settled" =>
                calls[id].outcome = Alone(calls[id].request, calls[id].nestedReply))
    /\ [][\A id \in CallIds :
            calls'[id] # calls[id] => \A j \in CallIds \ {id} : calls'[j] = calls[j]]_vars

\* two calls of one tool with different inputs were suspended at once, and one of them has
\* settled after its reply while the other still waits
C15_Witness ==
    \E a \in CallIds, b \in CallIds :
        /\ a # b
        /\ calls[a].pc = "settled"
        /\ calls[a].nestedReply # None
        /\ calls[a].outcome.kind = "response"
        /\ ~IsError(calls[a].outcome.response)
        /\ Suspended(calls[b])
        /\ b \in calls[a].overlap
        /\ calls[a].request.name = calls[b].request.name
        /\ calls[a].input # calls[b].input

\* C21 (as claimed): the output of extract_entities holds no two entries of the same type
\* whose texts are equal ignoring case, for every accepted text and list of types.
C21_NoDuplicateEntities ==
    Returned("extract_entities") =>
        /\ result.ok
        /\ \A j \in 1..Len(result.value), k \in 1..Len(result.value) :
             (j # k /\ result.value[j].type = result.value[k].type)
                => ToLowerCase(result.value[j].text) # ToLowerCase(result.value[k].text)

\* the live search provider was called and its fetch has ended with this reply
LiveSearchEnded == Resumed("brave_web_search") /\ providers.search = "BraveWebSearchProvider"

\* the three upstream faults, in the order the provider meets them
FaultKind(reply) ==
    IF reply.kind = "throw" THEN "transport"
    ELSE IF ~ResponseOk(reply) THEN "status"
    ELSE IF ~reply.body.parses THEN "parse"
    ELSE "none"

\* C22: when the fetch of the live search provider throws, answers with a status outside
\* 200..299, or answers with a body that does not parse, the provider returns a failure
\* Result and does not throw; the message of a status fault holds the status code, and
\* the message differs from the message of every fault of another kind.
C22_SearchFaultsMapped ==
    (LiveSearchEnded /\ FaultKind(nestedReply) # "none") =>
        /\ result # None
        /\ ~result.ok
        /\ FaultKind(nestedReply) = "status" => Includes(result.error, IntToStr(nestedReply.status))
        /\ \A other \in FetchReplies("brave_web_search") :
             FaultKind(other) \notin {"none", FaultKind(nestedReply)} =>
                 LET alt == BraveWebSearchProviderSearch(input.query, input.maxResults, other)
                 IN  ~alt.threw /\ ~alt.value.ok /\ alt.value.error # result.error

\* a fetch answered with HTTP 500 gave the failure that names the status
C22_Witness ==
    /\ LiveSearchEnded
    /\ FaultKind(nestedReply) = "status"
    /\ nestedReply.status = 500
    /\ result = Err("Brave Search API error: HTTP 500")

\* the upstream result list of a parsed body; a body without one has the empty list
UpstreamResults(json) ==
    IF json.t # "object" THEN <<>>
    ELSE IF Prop(json, "web").t # "object" THEN <<>>
    ELSE IF Prop(Prop(json, "web"), "results").t # "array" THEN <<>>
    ELSE Prop(Prop(json, "web"), "results").v

\* C23 (as claimed): on every answer with a status in 200..299 and a body that parses, the
\* live search provider returns a success Result with exactly min(maxResults, number of
\* upstream results) results, in upstream order; a missing or empty upstream list gives
\* the empty success list.
C23_LiveSearchCount ==
    (LiveSearchEnded /\ FaultKind(nestedReply) = "none") =>
        /\ result # None
        /\ result.ok
        /\ Len(result.value) = Min(input.maxResults, Len(UpstreamResults(nestedReply.body.json)))
        /\ \A j \in 1..Len(result.value) :
             /\ result.value[j].title = Prop(UpstreamResults(nestedReply.body.json)[j], "title")
             /\ result.value[j].url = Prop(UpstreamResults(nestedReply.body.json)[j], "url")

C25_ResultAlgebra ==
    \A j \in 1..Len(direct) :
        /\ direct[j].fn \in {"unwrapOr", "mapResult"} =>
              IF direct[j].res.ok THEN DOMAIN direct[j].res = {"ok", "value"}
              ELSE DOMAIN direct[j].res = {"ok", "error"}
        /\ direct[j].fn = "unwrapOr" =>
              direct[j].unwrapped = IF direct[j].res.ok THEN direct[j].res.value
                                    ELSE direct[j].defaultValue
        /\ direct[j].fn = "mapResult" =>
              IF direct[j].res.ok
              THEN /\ direct[j].mapped = Ok(Apply(direct[j].mapper, direct[j].res.value))
                   /\ direct[j].applies = <<direct[j].res.value>>
              ELSE /\ direct[j].mapped = Err(direct[j].res.error)
                   /\ direct[j].applies = <<>>

\* a failure was mapped with a function that would change its error, and a success was
\* mapped to a different value
C25_Witness ==
    /\ Len(direct) = 2
    /\ direct[1].fn = "mapResult" /\ direct[1].res = Err(" Fail") /\ direct[1].mapper = "trim"
    /\ direct[2].fn = "mapResult" /\ direct[2].res = Ok(" Fail") /\ direct[2].mapped = Ok("Fail")

\* C26 (as claimed): for every reply of the client to the elicitation request, with or
\* without a payload, the action configure_analysis reports is the client's action, and
\* the result has a configuration exactly if the reported action is accept.
C26_ActionIsDisposition ==
    (Resumed("configure_analysis") /\ nestedReply.kind = "result") =>
        /\ result # None
        /\ result.ok
        /\ result.value.action = nestedReply.action
        /\ "config" \in DOMAIN result.value <=> result.value.action = "accept"

\* the tools/list request was just answered
ToolsListed == pc = "served" /\ served.method = "tools/list"

\* the call was answered with the unknown-tool error for its name
UnknownToolAnswered ==
    /\ outcome.kind = "response"
    /\ IsError(outcome.response)
    /\ ResponseText = "Unknown tool: " \o request.name

\* C27: the names in the tools/list response are pairwise distinct; a call of a name that
\* is among them is routed to the parse and handler of that tool, and a call of any other
\* name gets the unknown-tool error and reaches no handler.
C27_AdvertisedIsDispatched ==
    /\ ToolsListed =>
          /\ \A j \in 1..Len(served.response.tools), k \in 1..Len(served.response.tools) :
                j # k => served.response.tools[j].name # served.response.tools[k].name
          /\ {served.response.tools[j].name : j \in 1..Len(served.response.tools)} = Catalog
    /\ (pc = "settled" /\ request.name \in Catalog) =>
          /\ log # <<>>
          /\ log[1].what = request.name
          /\ ~UnknownToolAnswered
    /\ (pc = "settled" /\ request.name \notin Catalog) =>
          /\ log = <<>>
          /\ UnknownToolAnswered

\* tools/list was answered with the seven names
C27_Witness ==
    /\ ToolsListed
    /\ Len(served.response.tools) = 7
    /\ served.response.tools[4].name = "brave_web_search"

\* the document a resources/read of toolkit://tools was just answered with
ToolsResourceRead ==
    pc = "served" /\ served.method = "resources/read" /\ served.params.uri = "toolkit://tools"

\* C28 (as claimed): the names the toolkit://tools resource returns are exactly the names
\* the call-tool dispatcher routes to a handler, and its count is their number.
C28_ToolsResourceComplete ==
    ToolsResourceRead =>
        /\ {served.response.contents[1].text.json.tools[j].name :
              j \in 1..Len(served.response.contents[1].text.json.tools)} = ToolNames
        /\ served.response.contents[1].text.json.count = Cardinality(ToolNames)

\* C29: a get_weather call settles as the same call with any other unit would, for the
\* same provider, location and upstream answer: the unit argument has no effect, and the
\* unit of the result may differ from the unit asked for.
C29_UnitHasNoEffect ==
    (pc = "settled" /\ request.name = "get_weather" /\ input # None) =>
        \A unit \in {"celsius", "fahrenheit"} :
            outcome = Settlement("get_weather",
                                 getWeather([input EXCEPT !.unit = unit], providers.weather, nestedReply))

\* fahrenheit was asked for London, and the mock provider's record in celsius was returned
C29_Witness ==
    /\ Returned("get_weather")
    /\ providers.weather = "MockWeatherProvider"
    /\ input.unit = "fahrenheit"
    /\ result.ok
    /\ "unit" \in DOMAIN result.value
    /\ result.value.unit = "celsius"

\* the live weather provider was called and its fetch has ended with this reply
LiveWeatherEnded == Resumed("get_weather") /\ providers.weather = "OpenWeatherMapProvider"

\* C30 (as claimed): whatever the upstream does (the fetch throws, the status is outside
\* 200..299, the body does not parse, or a 2xx body lacks expected fields), the live weather
\* provider returns a Result, a success or a failure, and throws nothing.
C30_LiveWeatherNeverRaises ==
    LiveWeatherEnded =>
        /\ ~OpenWeatherMapProviderGetWeather(input.location, nestedReply).threw
        /\ result # None
        /\ outcome.kind = "response"

====
